---------------------------- MODULE Spec2Model ----------------------------
(***************************************************************************)
(* A model of the Squared (^2) language core: the Lexer and the Parser of  *)
(* src/src/parser.js and the tree-walking Interpreter of                   *)
(* src/src/interpreter.js.                                                 *)
(*                                                                         *)
(* Source text is a TLA+ string; positions are 0-based as in the code.     *)
(* The lexer advances one iteration of its main loop per step; the parser  *)
(* and the interpreter are recursive operators with the names of the       *)
(* methods they are translated from.                                       *)
(***************************************************************************)
EXTENDS Integers, Sequences, FiniteSets, TLC

VARIABLES
    input,          \* Lexer.input
    pos,            \* Lexer.pos
    tokens,         \* Lexer.tokens
    currentIndent,  \* Lexer.currentIndent
    phase,          \* where the pipeline stands: lex, lexed, parsed, done, bound, syntax_error
    ast,            \* the Program node returned by Parser.parse
    ip,             \* Interpreter.run: how many statements of ast.body have been executed
    heap,           \* the Map objects of the interpreter; heap[1] is Interpreter.globals
    output,         \* the calls made to the output callback, in order: their arguments
    evalResult,     \* Interpreter.evalResult
    caught,         \* the message of the error Interpreter.run caught, "" when none
    escaped,        \* whether Interpreter.run let an error escape to its caller
    trace,          \* history: what the evaluator did, in order
    fuel,           \* loop iterations and calls the run may still spend
    nextId,         \* history: the next fresh identity of a call or of a loop
    made            \* how many objects the interpreter has made: which object a value is

vars == <<input, pos, tokens, currentIndent, phase, ast, ip, heap, output,
          evalResult, caught, escaped, trace, fuel, nextId, made>>

lexVars == <<input, pos, tokens, currentIndent>>
runVars == <<ip, heap, output, evalResult, caught, escaped, trace, fuel, nextId, made>>

(***************************************************************************)
(* Bounds of the model.                                                    *)
(***************************************************************************)
\* loop iterations and user-function calls one run may spend
MaxFuel == 12

\* Math.random() draws one of 0 / RandomSteps .. (RandomSteps - 1) / RandomSteps
RandomSteps == 4

\* calls of Math.random() that one statement of the program may make
MaxDraws == 2

(***************************************************************************)
(* Characters.                                                             *)
(***************************************************************************)
CharAt(s, p) == IF p >= 0 /\ p < Len(s) THEN SubSeq(s, p + 1, p + 1) ELSE ""

\* /\s/ on the characters of the texts of the model, which are those of ASCII:
\* the space, the tab, the line feed, the carriage return, the form feed and
\* the vertical tab.  The characters beyond ASCII that /\s/ also matches
\* (U+00A0, U+1680, U+2000..U+200A, U+2028, U+2029, U+202F, U+205F, U+3000 and
\* U+FEFF) are in no text of the model
IsWhitespace(c) == c \in {" ", "\t", "\n", "\r", "\f", ""}

\* /[a-zA-Z_]/
IsIdentStart(c) ==
    c \in {"a","b","c","d","e","f","g","h","i","j","k","l","m","n","o","p","q",
           "r","s","t","u","v","w","x","y","z",
           "A","B","C","D","E","F","G","H","I","J","K","L","M","N","O","P","Q",
           "R","S","T","U","V","W","X","Y","Z","_"}

\* /[0-9]/
IsDigit(c) == c \in {"0","1","2","3","4","5","6","7","8","9"}

\* /[a-zA-Z0-9_]/
IsIdentPart(c) == IsIdentStart(c) \/ IsDigit(c)

\* /[0-9.]/
IsNumberPart(c) == IsDigit(c) \/ c = "."

SymbolChars == {"=", ",", ".", "+", "-", "*", "/", "(", ")", "{", "}", "<", ">", "!"}

\* the width currentIndent moves by per DEDENT
IndentStep == 4

\* what a tab adds to the measured indentation
TabWidth == 4

(***************************************************************************)
(* Lexer.  A lexer state L is [input, pos, tokens, currentIndent].         *)
(***************************************************************************)
\* the number of line breaks among the first n characters of s
CountNewlines(s, n) == Cardinality({i \in 0 .. n - 1 : CharAt(s, i) = "\n"})

getLine(L) == CountNewlines(L.input, L.pos) + 1

\* the measuring loop of handleIndentation: <<pos, spaces>> when it ends
RECURSIVE measureIndent(_, _, _)
measureIndent(s, p, spaces) ==
    IF p < Len(s) /\ CharAt(s, p) # "\n"
    THEN IF CharAt(s, p) = " " THEN measureIndent(s, p + 1, spaces + 1)
         ELSE IF CharAt(s, p) = "\t" THEN measureIndent(s, p + 1, spaces + TabWidth)
         ELSE <<p, spaces>>
    ELSE <<p, spaces>>

\* one iteration of the DEDENT loop of handleIndentation
dedentOnce(L) ==
    LET c == L.currentIndent - IndentStep
    IN  [L EXCEPT !.tokens = Append(L.tokens, [type |-> "DEDENT"]),
                  !.currentIndent = IF c < 0 THEN 0 ELSE c]

RECURSIVE dedentLoop(_, _)
dedentLoop(L, spaces) ==
    IF spaces < L.currentIndent THEN dedentLoop(dedentOnce(L), spaces) ELSE L

\* F(v), v being computed once
Once(F(_), v) == CHOOSE y \in {F(x) : x \in {v}} : TRUE

\* handleIndentation after its measuring loop, which ended at p with spaces
indentationAt(L, p, spaces) ==
    IF p >= Len(L.input) \/ CharAt(L.input, p) = "\n" \/ CharAt(L.input, p) = "#"
    THEN [L EXCEPT !.pos = p]
    ELSE IF spaces > L.currentIndent
    THEN [L EXCEPT !.pos = p,
                   !.tokens = Append(L.tokens,
                                     [type |-> "INDENT", count |-> spaces - L.currentIndent]),
                   !.currentIndent = spaces]
    ELSE IF spaces < L.currentIndent
    THEN [Once(LAMBDA L1 : dedentLoop(L1, spaces), [L EXCEPT !.pos = p])
             EXCEPT !.currentIndent = spaces]
    ELSE [L EXCEPT !.pos = p]

handleIndentation(L) ==
    Once(LAMBDA m : indentationAt(L, m[1], m[2]), measureIndent(L.input, L.pos, 0))

\* a variant of skipComment that stays where the comment begins
skipCommentStays(s, p) == p

\* the position skipComment stops at: the next line break, or the end
skipComment(s, p) ==
    LET breaks == {i \in p .. Len(s) - 1 : CharAt(s, i) = "\n"}
    IN  IF breaks = {} THEN (IF p < Len(s) THEN Len(s) ELSE p)
        ELSE CHOOSE i \in breaks : \A j \in breaks : i <= j

\* <<pos, res>> when the loop of readIdentifier ends
RECURSIVE readIdentifier(_, _, _)
readIdentifier(s, p, res) ==
    IF p < Len(s) /\ IsIdentPart(CharAt(s, p))
    THEN readIdentifier(s, p + 1, res \o CharAt(s, p))
    ELSE <<p, res>>

RECURSIVE readNumber(_, _, _)
readNumber(s, p, res) ==
    IF p < Len(s) /\ IsNumberPart(CharAt(s, p))
    THEN readNumber(s, p + 1, res \o CharAt(s, p))
    ELSE <<p, res>>

push(L, tok, advance) ==
    [L EXCEPT !.tokens = Append(L.tokens, tok), !.pos = L.pos + advance]

\* one iteration of the main loop of Lexer.tokenize (pos < input.length)
tokenizeStep(L) ==
    LET char == CharAt(L.input, L.pos)
        next == CharAt(L.input, L.pos + 1)
    IN  IF char = "\n"
        THEN Once(handleIndentation,
                  push(L, [type |-> "NEWLINE", line |-> getLine(L)], 1))
        ELSE IF IsWhitespace(char) THEN [L EXCEPT !.pos = L.pos + 1]
        ELSE IF char = "#" THEN [L EXCEPT !.pos = skipComment(L.input, L.pos)]
        ELSE IF char \in SymbolChars
        THEN IF char \in {"=", "!", "<", ">"} /\ next = "="
             THEN push(L, [type |-> "SYMBOL", value |-> char \o "="], 2)
             ELSE push(L, [type |-> "SYMBOL", value |-> char], 1)
        ELSE IF char = "[" THEN push(L, [type |-> "LBRACKET", value |-> "["], 1)
        ELSE IF char = "]" THEN push(L, [type |-> "RBRACKET", value |-> "]"], 1)
        ELSE IF IsIdentStart(char)
        THEN LET r == readIdentifier(L.input, L.pos, "")
             IN  [L EXCEPT !.tokens = Append(L.tokens, [type |-> "IDENTIFIER", value |-> r[2]]),
                           !.pos = r[1]]
        ELSE IF IsDigit(char)
        THEN LET r == readNumber(L.input, L.pos, "")
             IN  [L EXCEPT !.tokens = Append(L.tokens, [type |-> "NUMBER", value |-> r[2]]),
                           !.pos = r[1]]
        ELSE [L EXCEPT !.pos = L.pos + 1]

\* one iteration of the closing loop of Lexer.tokenize (currentIndent > 0)
tokenizeClose(L) ==
    [L EXCEPT !.tokens = Append(L.tokens, [type |-> "DEDENT"]),
              !.currentIndent = L.currentIndent - IndentStep]

\* Lexer.tokenize as a whole: the token vector of a source text
RECURSIVE tokenizeFrom(_)
tokenizeFrom(L) ==
    IF L.pos < Len(L.input) THEN tokenizeFrom(tokenizeStep(L))
    ELSE IF L.currentIndent > 0 THEN tokenizeFrom(tokenizeClose(L))
    ELSE L.tokens

Lexer(src) == [input |-> src, pos |-> 0, tokens |-> <<>>, currentIndent |-> 0]

tokenize(src) == tokenizeFrom(Lexer(src))


(***************************************************************************)
(* JavaScript values.  undefined, null, numbers, strings and booleans are  *)
(* tagged records; a JavaScript object is a record tagged "object" that    *)
(* carries the object's own fields (type, value, ...) beside the tag.      *)
(***************************************************************************)
Undefined == [jt |-> "undefined"]
Null      == [jt |-> "null"]
NaN       == [jt |-> "NaN"]
Num(n)    == [jt |-> "number", n |-> n]
Str(s)    == [jt |-> "string", s |-> s]
Bool(b)   == [jt |-> "boolean", b |-> b]
Arr(es)   == [jt |-> "array", elems |-> es]
\* a number that is no integer of few digits, by the text String() gives for it
Inexact(s) == [jt |-> "inexact", text |-> s]

DigitVal(c) ==
    CASE c = "0" -> 0 [] c = "1" -> 1 [] c = "2" -> 2 [] c = "3" -> 3
      [] c = "4" -> 4 [] c = "5" -> 5 [] c = "6" -> 6 [] c = "7" -> 7
      [] c = "8" -> 8 [] c = "9" -> 9 [] OTHER -> 0

\* length of the longest prefix of s made of digits, from 0-based position p
RECURSIVE DigitRun(_, _)
DigitRun(s, p) == IF IsDigit(CharAt(s, p)) THEN 1 + DigitRun(s, p + 1) ELSE 0

\* the value of the first n characters of s, all digits, read in base 10
RECURSIVE DigitsValue(_, _)
DigitsValue(s, n) ==
    IF n = 0 THEN 0 ELSE 10 * DigitsValue(s, n - 1) + DigitVal(CharAt(s, n - 1))

RECURSIVE AllZeros(_, _)
AllZeros(s, p) == p >= Len(s) \/ (CharAt(s, p) = "0" /\ AllZeros(s, p + 1))

RECURSIVE NatToString(_)
NatToString(n) ==
    LET d == SubSeq("0123456789", (n % 10) + 1, (n % 10) + 1)
    IN  IF n < 10 THEN d ELSE NatToString(n \div 10) \o d

\* the digits s without their leading zeros, one digit at least
RECURSIVE Significant(_)
Significant(s) ==
    IF Len(s) > 1 /\ CharAt(s, 0) = "0" THEN Significant(SubSeq(s, 2, Len(s))) ELSE s

RECURSIVE DropLeadingZeros(_)
DropLeadingZeros(s) ==
    IF Len(s) > 0 /\ CharAt(s, 0) = "0" THEN DropLeadingZeros(SubSeq(s, 2, Len(s))) ELSE s

RECURSIVE DropTrailingZeros(_)
DropTrailingZeros(s) ==
    IF Len(s) > 0 /\ CharAt(s, Len(s) - 1) = "0"
    THEN DropTrailingZeros(SubSeq(s, 1, Len(s) - 1)) ELSE s

RECURSIVE Zeros(_)
Zeros(n) == IF n <= 0 THEN "" ELSE "0" \o Zeros(n - 1)

RECURSIVE Pow10(_)
Pow10(n) == IF n <= 0 THEN 1 ELSE 10 * Pow10(n - 1)

RECURSIVE Pow5(_)
Pow5(n) == IF n <= 0 THEN 1 ELSE 5 * Pow5(n - 1)

\* a < b for two texts of digits of the same length
RECURSIVE DigitsLess(_, _, _)
DigitsLess(a, b, i) ==
    IF i >= Len(a) THEN FALSE
    ELSE IF CharAt(a, i) # CharAt(b, i) THEN DigitVal(CharAt(a, i)) < DigitVal(CharAt(b, i))
    ELSE DigitsLess(a, b, i + 1)

(***************************************************************************)
(* Numbers.  A JavaScript number is a double.  The model writes a finite   *)
(* one as the decimal its text names: digits without leading or trailing   *)
(* zeros and the place n of the point, the value being 0.digits * 10^n.    *)
(* Integers of at most MantissaDigits digits are Num(n), every other      *)
(* number Inexact(text), text being what String() gives.  The model keeps  *)
(* to the numbers whose text it can tell without rounding: decimals of at  *)
(* most 15 digits and integers up to 2^53.  It computes with those of at   *)
(* most MantissaDigits digits that a double holds exactly.  Beyond marks a *)
(* number outside those bounds: a run that meets one leaves the model.     *)
(***************************************************************************)
MantissaDigits == 8

Beyond == [jt |-> "beyond"]
\* -0, which only Math.floor(Math.random() * span) of handleCall gives
NegZero == [jt |-> "negzero"]
Infinity(neg) == Inexact(IF neg THEN "-Infinity" ELSE "Infinity")
IsInfinity(v) == v = Infinity(FALSE) \/ v = Infinity(TRUE)

\* +- raw * 10^e, raw being a text of digits
Decimal(neg, raw, e) ==
    [neg |-> neg, digits |-> DropTrailingZeros(DropLeadingZeros(raw)),
     n |-> Len(DropLeadingZeros(raw)) + e]

IsZero(d) == d.digits = ""
IsInteger(d) == IsZero(d) \/ Len(d.digits) <= d.n

\* Number::toString of a finite number, without its sign
DecimalText(d) ==
    LET k == Len(d.digits)
        exponent == IF d.n - 1 < 0 THEN "-" \o NatToString(1 - d.n)
                    ELSE "+" \o NatToString(d.n - 1)
    IN  IF k = 0 THEN "0"
        ELSE IF k <= d.n /\ d.n <= 21 THEN d.digits \o Zeros(d.n - k)
        ELSE IF 0 < d.n /\ d.n <= 21
        THEN SubSeq(d.digits, 1, d.n) \o "." \o SubSeq(d.digits, d.n + 1, k)
        ELSE IF -6 < d.n /\ d.n <= 0 THEN "0." \o Zeros(0 - d.n) \o d.digits
        ELSE IF k = 1 THEN d.digits \o "e" \o exponent
        ELSE SubSeq(d.digits, 1, 1) \o "." \o SubSeq(d.digits, 2, k) \o "e" \o exponent

\* the text of the double nearest to d is the text of d itself
TextKnown(d) ==
    \/ Len(d.digits) <= 15 /\ d.n >= -300 /\ d.n <= 300
    \/ /\ IsInteger(d) /\ d.n = 16
       /\ ~DigitsLess("9007199254740992", d.digits \o Zeros(16 - Len(d.digits)), 0)

\* the number d as a value of the model
NumberValue(d) ==
    IF IsZero(d) THEN (IF d.neg THEN Beyond ELSE Num(0))
    ELSE IF IsInteger(d) /\ d.n <= MantissaDigits
    THEN Num((IF d.neg THEN -1 ELSE 1) * DigitsValue(d.digits \o Zeros(d.n - Len(d.digits)), d.n))
    ELSE IF TextKnown(d) THEN Inexact((IF d.neg THEN "-" ELSE "") \o DecimalText(d))
    ELSE Beyond

\* DecimalLiteral when the literal of s ends at last: its integer digits are
\* the ki characters from position from, its fraction digits the kf after the
\* dot, its exponent the ke digits from efrom (ke = 0 with hasE: none follow)
LiteralRead(s, from, ki, kf, hasE, efrom, ke, last) ==
    IF ki + kf = 0 \/ (hasE /\ ke = 0) \/ last # Len(s) THEN [ok |-> FALSE]
    ELSE IF ke > 3 THEN [ok |-> TRUE, far |-> TRUE]
    ELSE [ok |-> TRUE, far |-> FALSE,
          d |-> Decimal(CharAt(s, 0) = "-",
                        SubSeq(s, from + 1, from + ki)
                            \o SubSeq(s, from + ki + 2, from + ki + 1 + kf),
                        (IF hasE /\ CharAt(s, efrom - 1) = "-"
                         THEN 0 - DigitsValue(SubSeq(s, efrom + 1, efrom + ke), ke)
                         ELSE IF hasE THEN DigitsValue(SubSeq(s, efrom + 1, efrom + ke), ke)
                         ELSE 0) - kf)]

\* DecimalLiteral from the exponent on: mark is where the mantissa ends, efrom
\* where the digits of an exponent would start
LiteralExponent(s, from, ki, kf, mark, hasE, efrom) ==
    LiteralRead(s, from, ki, kf, hasE, efrom, IF hasE THEN DigitRun(s, efrom) ELSE 0,
                IF hasE THEN efrom + DigitRun(s, efrom) ELSE mark)

\* DecimalLiteral from the end of the mantissa on
LiteralMark(s, from, ki, kf, mark) ==
    LiteralExponent(s, from, ki, kf, mark, CharAt(s, mark) \in {"e", "E"},
                    mark + 1 + (IF CharAt(s, mark + 1) \in {"+", "-"} THEN 1 ELSE 0))

\* DecimalLiteral from the fraction on
LiteralFraction(s, from, ki, kf) ==
    LiteralMark(s, from, ki, kf,
                from + ki + (IF CharAt(s, from + ki) = "." THEN 1 + kf ELSE 0))

\* DecimalLiteral from the integer digits on
LiteralInteger(s, from, ki) ==
    LiteralFraction(s, from, ki,
                    IF CharAt(s, from + ki) = "." THEN DigitRun(s, from + ki + 1) ELSE 0)

\* a decimal literal with an optional sign and exponent, as Number(s) reads it:
\* [ok |-> FALSE] when s is none, else the decimal; far |-> TRUE when its
\* exponent has more digits than the model follows
DecimalLiteral(s) ==
    LiteralInteger(s, IF CharAt(s, 0) \in {"+", "-"} THEN 1 ELSE 0,
                   DigitRun(s, IF CharAt(s, 0) \in {"+", "-"} THEN 1 ELSE 0))

\* the decimal a number of the model stands for
DecimalOfValue(v) ==
    IF v.jt = "number"
    THEN Decimal(v.n < 0, NatToString(IF v.n < 0 THEN 0 - v.n ELSE v.n), 0)
    ELSE DecimalLiteral(v.text).d

\* the number a literal read by DecimalLiteral names
LiteralValue(literal) ==
    IF ~literal.ok THEN NaN
    ELSE IF literal.far THEN Beyond
    ELSE NumberValue(literal.d)

\* Number(text) for the texts readNumber produces: digits and dots, a digit first
NumberOf(text) == LiteralValue(DecimalLiteral(text))

(***************************************************************************)
(* Parser.  The operators take the token vector and the 0-based position   *)
(* and return [ok |-> TRUE, pos, node], or [ok |-> FALSE, error] where the *)
(* code throws.                                                            *)
(***************************************************************************)
Ok(p, n) == [ok |-> TRUE, pos |-> p, node |-> n]
Fail(msg, found) == [ok |-> FALSE, error |-> [message |-> msg, found |-> found]]

TokenAt(toks, p) == IF p >= 0 /\ p < Len(toks) THEN toks[p + 1] ELSE Undefined

HasValue(t) == "value" \in DOMAIN t

\* tokens[p]?.value === v
ValueIs(toks, p, v) ==
    p >= 0 /\ p < Len(toks) /\ HasValue(toks[p + 1]) /\ toks[p + 1].value = v

\* Parser.check; value "" stands for an omitted value
check(toks, p, type, value) ==
    /\ p < Len(toks)
    /\ toks[p + 1].type = type
    /\ (value = "" \/ (HasValue(toks[p + 1]) /\ toks[p + 1].value = value))

\* Parser.match: the position after it
match(toks, p, type, value) == IF check(toks, p, type, value) THEN p + 1 ELSE p

\* Parser.consume: the node of the result is the consumed token
consume(toks, p, type, value) ==
    IF check(toks, p, type, value) THEN Ok(p + 1, toks[p + 1])
    ELSE Fail("Expected " \o type \o " " \o value \o " but found ", TokenAt(toks, p))

\* the rest K of a parsing method runs on the result r of a step that did not throw
Then(r, K(_)) == IF r.ok THEN K(r) ELSE r

\* consecutive consume calls, each <<type, value>>; the node is the last token
RECURSIVE consumeAll(_, _, _)
consumeAll(toks, p, wanted) ==
    Then(consume(toks, p, wanted[1][1], wanted[1][2]),
         LAMBDA r : IF Len(wanted) = 1 THEN r ELSE consumeAll(toks, r.pos, Tail(wanted)))

ConstructorNames == {"int", "str", "bool", "fstr", "fint", "var", "o", "obj", "a", "f", "fobj"}

ComparisonOps == {"==", "!=", "<", ">", "<=", ">="}
AdditiveOps == {"+", "-", "*", "/"}

IsSymbolIn(toks, p, ops) ==
    \E op \in ops : check(toks, p, "SYMBOL", op)

RECURSIVE parseStatement(_, _)
RECURSIVE parseBlock(_, _)
RECURSIVE blockLoop(_, _, _)
RECURSIVE parseExpression(_, _)
RECURSIVE comparisonLoop(_, _, _)
RECURSIVE parseAdditiveExpression(_, _)
RECURSIVE additiveLoop(_, _, _)
RECURSIVE parseCallMemberPrimary(_, _)
RECURSIVE postfixLoop(_, _, _)
RECURSIVE argumentLoop(_, _, _)
RECURSIVE parsePrimary(_, _)

parsePrimary(toks, p) ==
    IF check(toks, p, "SYMBOL", "(")
    THEN Then(parseExpression(toks, p + 1),
              LAMBDA e : Then(consume(toks, e.pos, "SYMBOL", ")"),
                              LAMBDA c : Ok(c.pos, e.node)))
    ELSE IF check(toks, p, "IDENTIFIER", "")
    THEN Ok(p + 1, [type |-> "Identifier", value |-> toks[p + 1].value])
    ELSE IF check(toks, p, "NUMBER", "")
    THEN Ok(p + 1, [type |-> "Literal", value |-> NumberOf(toks[p + 1].value)])
    ELSE Fail("Unexpected token: ", TokenAt(toks, p))

\* the do-while of the argument list: args so far, position at an argument
argumentLoop(toks, p, args) ==
    Then(parseExpression(toks, p),
         LAMBDA e : IF check(toks, e.pos, "SYMBOL", ",")
                    THEN argumentLoop(toks, e.pos + 1, Append(args, e.node))
                    ELSE Ok(e.pos, Append(args, e.node)))

\* the balance of brackets after the token at p
balanceAfter(toks, p, balance) ==
    IF toks[p + 1].type = "LBRACKET" THEN balance + 1
    ELSE IF toks[p + 1].type = "RBRACKET" THEN balance - 1
    ELSE balance

\* the loop that harvests the body of a type constructor: the position it stops
\* at, and the tokens it collected as the node
RECURSIVE harvest(_, _, _, _)
harvest(toks, p, balance, content) ==
    IF balance > 0 /\ p < Len(toks)
    THEN IF toks[p + 1].type = "RBRACKET" /\ balance = 1 THEN Ok(p, content)
         ELSE harvest(toks, p + 1, balanceAfter(toks, p, balance), Append(content, toks[p + 1]))
    ELSE Ok(p, content)

\* the argument list of a call, the position being after the opening parenthesis
arguments(toks, p) ==
    IF check(toks, p, "SYMBOL", ")") THEN Ok(p, <<>>) ELSE argumentLoop(toks, p, <<>>)

\* the while (true) of parseCallMemberPrimary, expr being the expression so far
postfixLoop(toks, p, expr) ==
    IF check(toks, p, "SYMBOL", ".")
    THEN IF check(toks, p + 1, "IDENTIFIER", "") \/ check(toks, p + 1, "NUMBER", "")
         THEN postfixLoop(toks, p + 2,
                  [type |-> "MemberExpression", object |-> expr,
                   property |-> toks[p + 2].value])
         ELSE Fail("Expected identifier or number after dot", Undefined)
    ELSE IF check(toks, p, "SYMBOL", "(")
    THEN Then(arguments(toks, p + 1),
              LAMBDA a : Then(consume(toks, a.pos, "SYMBOL", ")"),
                              LAMBDA c : postfixLoop(toks, c.pos,
                                             [type |-> "CallExpression", callee |-> expr,
                                              arguments |-> a.node])))
    ELSE IF check(toks, p, "LBRACKET", "")
    THEN IF expr.type = "Identifier" /\ expr.value \in ConstructorNames
         THEN Then(harvest(toks, p + 1, 1, <<>>),
                   LAMBDA h : Then(consume(toks, h.pos, "RBRACKET", ""),
                                   LAMBDA c : postfixLoop(toks, c.pos,
                                                  [type |-> "TypeConstruction",
                                                   callee |-> expr.value,
                                                   bodyTokens |-> h.node])))
         ELSE Ok(p, expr)
    ELSE Ok(p, expr)

parseCallMemberPrimary(toks, p) ==
    Then(parsePrimary(toks, p), LAMBDA e : postfixLoop(toks, e.pos, e.node))

BinaryExpression(left, operator, right) ==
    [type |-> "BinaryExpression", left |-> left, operator |-> operator, right |-> right]

\* a variant of additiveLoop that takes all that follows the operator as its
\* right operand
additiveLoopRightward(toks, p, left) ==
    IF IsSymbolIn(toks, p, AdditiveOps)
    THEN Then(parseAdditiveExpression(toks, p + 1),
              LAMBDA r : Ok(r.pos, BinaryExpression(left, toks[p + 1].value, r.node)))
    ELSE Ok(p, left)

additiveLoop(toks, p, left) ==
    IF IsSymbolIn(toks, p, AdditiveOps)
    THEN Then(parseCallMemberPrimary(toks, p + 1),
              LAMBDA r : additiveLoop(toks, r.pos,
                             BinaryExpression(left, toks[p + 1].value, r.node)))
    ELSE Ok(p, left)

parseAdditiveExpression(toks, p) ==
    Then(parseCallMemberPrimary(toks, p), LAMBDA l : additiveLoop(toks, l.pos, l.node))

comparisonLoop(toks, p, left) ==
    IF IsSymbolIn(toks, p, ComparisonOps)
    THEN Then(parseAdditiveExpression(toks, p + 1),
              LAMBDA r : comparisonLoop(toks, r.pos,
                             BinaryExpression(left, toks[p + 1].value, r.node)))
    ELSE Ok(p, left)

parseComparisonExpression(toks, p) ==
    Then(parseAdditiveExpression(toks, p), LAMBDA l : comparisonLoop(toks, l.pos, l.node))

parseExpression(toks, p) == parseComparisonExpression(toks, p)

\* tokens[pos] is an identifier and tokens[pos + 1]?.value === '='
AtAssignment(toks, p) == check(toks, p, "IDENTIFIER", "") /\ ValueIs(toks, p + 1, "=")

\* the position after a statement: a NEWLINE is matched if consumeNewline
afterStatement(toks, p, consumeNewline) ==
    IF consumeNewline THEN match(toks, p, "NEWLINE", "") ELSE p

parseVarDeclaration(toks, p, consumeNewline) ==
    Then(consumeAll(toks, p, << <<"IDENTIFIER", "var">>, <<"LBRACKET", "">>,
                               <<"IDENTIFIER", "">> >>),
         LAMBDA h :
    Then(consumeAll(toks, h.pos, << <<"RBRACKET", "">>, <<"SYMBOL", "=">> >>),
         LAMBDA t :
    Then(parseExpression(toks, t.pos),
         LAMBDA e : Ok(afterStatement(toks, e.pos, consumeNewline),
                       [type |-> "VarDeclaration", name |-> h.node.value,
                        value |-> e.node]))))

parseAssignmentStatement(toks, p, consumeNewline) ==
    Then(consume(toks, p, "IDENTIFIER", ""),
         LAMBDA h :
    Then(consume(toks, h.pos, "SYMBOL", "="),
         LAMBDA t :
    Then(parseExpression(toks, t.pos),
         LAMBDA e : Ok(afterStatement(toks, e.pos, consumeNewline),
                       [type |-> "AssignmentStatement", name |-> h.node.value,
                        value |-> e.node]))))

\* the header shared by if and while: keyword [ test ] NEWLINE; the node is the test
parseBracketedTest(toks, p, keyword) ==
    Then(consumeAll(toks, p, << <<"IDENTIFIER", keyword>>, <<"LBRACKET", "">> >>),
         LAMBDA h :
    Then(parseExpression(toks, h.pos),
         LAMBDA e :
    Then(consumeAll(toks, e.pos, << <<"RBRACKET", "">>, <<"NEWLINE", "">> >>),
         LAMBDA t : Ok(t.pos, e.node))))

\* the else branch of parseIfStatement: an array of statements, or null
parseAlternate(toks, p) ==
    IF check(toks, p, "IDENTIFIER", "else")
    THEN Then(consumeAll(toks, p, << <<"IDENTIFIER", "else">>, <<"NEWLINE", "">> >>),
              LAMBDA n : Then(parseBlock(toks, n.pos), LAMBDA a : Ok(a.pos, Arr(a.node))))
    ELSE Ok(p, Null)

parseIfStatement(toks, p) ==
    Then(parseBracketedTest(toks, p, "if"),
         LAMBDA h :
    Then(parseBlock(toks, h.pos),
         LAMBDA c :
    Then(parseAlternate(toks, c.pos),
         LAMBDA a : Ok(a.pos, [type |-> "IfStatement", test |-> h.node,
                               consequent |-> c.node, alternate |-> a.node]))))

parseWhileStatement(toks, p) ==
    Then(parseBracketedTest(toks, p, "while"),
         LAMBDA h :
    Then(parseBlock(toks, h.pos),
         LAMBDA b : Ok(b.pos, [type |-> "WhileStatement", test |-> h.node,
                               body |-> b.node])))

parseExpressionStatement(toks, p, consumeNewline) ==
    Then(parseExpression(toks, p),
         LAMBDA e : Ok(afterStatement(toks, e.pos, consumeNewline),
                       [type |-> "ExpressionStatement", expression |-> e.node]))

\* the init and the update of a for header
parseForClause(toks, p) ==
    IF check(toks, p, "IDENTIFIER", "var") THEN parseVarDeclaration(toks, p, FALSE)
    ELSE IF AtAssignment(toks, p) THEN parseAssignmentStatement(toks, p, FALSE)
    ELSE parseExpressionStatement(toks, p, FALSE)

parseForStatement(toks, p) ==
    Then(consumeAll(toks, p, << <<"IDENTIFIER", "for">>, <<"LBRACKET", "">> >>),
         LAMBDA h :
    Then(parseForClause(toks, h.pos),
         LAMBDA i :
    Then(consume(toks, i.pos, "SYMBOL", ","),
         LAMBDA c1 :
    Then(parseExpression(toks, c1.pos),
         LAMBDA t :
    Then(consume(toks, t.pos, "SYMBOL", ","),
         LAMBDA c2 :
    Then(parseForClause(toks, c2.pos),
         LAMBDA u :
    Then(consumeAll(toks, u.pos, << <<"RBRACKET", "">>, <<"NEWLINE", "">> >>),
         LAMBDA e :
    Then(parseBlock(toks, e.pos),
         LAMBDA b : Ok(b.pos, [type |-> "ForStatement", init |-> i.node, test |-> t.node,
                               update |-> u.node, body |-> b.node])))))))))

\* the do-while of the parameter list: params so far, position at a parameter
RECURSIVE parameterLoop(_, _, _)
parameterLoop(toks, p, params) ==
    Then(consume(toks, p, "IDENTIFIER", ""),
         LAMBDA n : IF check(toks, n.pos, "SYMBOL", ",")
                    THEN parameterLoop(toks, n.pos + 1, Append(params, n.node.value))
                    ELSE Ok(n.pos, Append(params, n.node.value)))

\* the parameter list, the position being after the opening parenthesis
parameters(toks, p) ==
    IF check(toks, p, "SYMBOL", ")") THEN Ok(p, <<>>) ELSE parameterLoop(toks, p, <<>>)

parseFunctionDeclaration(toks, p) ==
    Then(consumeAll(toks, p, << <<"IDENTIFIER", "func">>, <<"LBRACKET", "">>,
                               <<"IDENTIFIER", "">> >>),
         LAMBDA h :
    Then(consume(toks, h.pos, "SYMBOL", "("),
         LAMBDA o :
    Then(parameters(toks, o.pos),
         LAMBDA ps :
    Then(consumeAll(toks, ps.pos, << <<"SYMBOL", ")">>, <<"RBRACKET", "">>,
                                    <<"NEWLINE", "">> >>),
         LAMBDA e :
    Then(parseBlock(toks, e.pos),
         LAMBDA b : Ok(b.pos, [type |-> "FunctionDeclaration", name |-> h.node.value,
                               params |-> ps.node, body |-> b.node]))))))

parseReturnStatement(toks, p) ==
    Then(consume(toks, p, "IDENTIFIER", "return"),
         LAMBDA k :
    Then(parseExpression(toks, k.pos),
         LAMBDA e : Ok(match(toks, e.pos, "NEWLINE", ""),
                       [type |-> "ReturnStatement", value |-> e.node])))

parseBreakStatement(toks, p) ==
    Then(consume(toks, p, "IDENTIFIER", "break"),
         LAMBDA k : Ok(match(toks, k.pos, "NEWLINE", ""), [type |-> "BreakStatement"]))

parseContinueStatement(toks, p) ==
    Then(consume(toks, p, "IDENTIFIER", "continue"),
         LAMBDA k : Ok(match(toks, k.pos, "NEWLINE", ""), [type |-> "ContinueStatement"]))

parseStatement(toks, p) ==
    IF check(toks, p, "IDENTIFIER", "var") THEN parseVarDeclaration(toks, p, TRUE)
    ELSE IF check(toks, p, "IDENTIFIER", "func") THEN parseFunctionDeclaration(toks, p)
    ELSE IF check(toks, p, "IDENTIFIER", "return") THEN parseReturnStatement(toks, p)
    ELSE IF check(toks, p, "IDENTIFIER", "if") THEN parseIfStatement(toks, p)
    ELSE IF check(toks, p, "IDENTIFIER", "while") THEN parseWhileStatement(toks, p)
    ELSE IF check(toks, p, "IDENTIFIER", "for") THEN parseForStatement(toks, p)
    ELSE IF check(toks, p, "IDENTIFIER", "break") THEN parseBreakStatement(toks, p)
    ELSE IF check(toks, p, "IDENTIFIER", "continue") THEN parseContinueStatement(toks, p)
    ELSE IF AtAssignment(toks, p) THEN parseAssignmentStatement(toks, p, TRUE)
    ELSE parseExpressionStatement(toks, p, TRUE)

\* the while of parseBlock, body being the statements so far
blockLoop(toks, p, body) ==
    IF ~check(toks, p, "DEDENT", "") /\ p < Len(toks)
    THEN IF check(toks, p, "NEWLINE", "") THEN blockLoop(toks, p + 1, body)
         ELSE Then(parseStatement(toks, p),
                   LAMBDA s : blockLoop(toks, s.pos, Append(body, s.node)))
    ELSE Ok(p, body)

parseBlock(toks, p) ==
    Then(consume(toks, p, "INDENT", ""),
         LAMBDA i :
    Then(blockLoop(toks, i.pos, <<>>),
         LAMBDA b :
    Then(consume(toks, b.pos, "DEDENT", ""),
         LAMBDA d : Ok(d.pos, b.node))))

\* the while of Parser.parse, statements being the statements so far
RECURSIVE parseLoop(_, _, _)
parseLoop(toks, p, statements) ==
    IF p < Len(toks)
    THEN IF check(toks, p, "NEWLINE", "") \/ check(toks, p, "DEDENT", "")
         THEN parseLoop(toks, p + 1, statements)
         ELSE Then(parseStatement(toks, p),
                   LAMBDA s : parseLoop(toks, s.pos, Append(statements, s.node)))
    ELSE Ok(p, [type |-> "Program", body |-> statements])

\* Parser.parse of new Parser(toks)
parse(toks) == parseLoop(toks, 0, <<>>)

(***************************************************************************)
(* JavaScript semantics the interpreter relies on.                         *)
(***************************************************************************)
Obj(type) == [jt |-> "object", type |-> type]
Primitive(v) == [jt |-> "object", type |-> "primitive", value |-> v]
\* a Map with insertion order: the keys in order, and the value of each
MapOf(keys, vals) == [jt |-> "map", keys |-> keys, vals |-> vals]

\* an array: its elements and, as id, which array it is.  The arrays the
\* interpreter makes are numbered from 1, 0 is Array.prototype, and -1 is an
\* array of the syntax tree, of which the model does not tell which it is
ArrayOf(es, id) == [jt |-> "array", elems |-> es, id |-> id]

\* a function of the host: the prototype that has it, "" for a constructor
Native(of, name) == [jt |-> "host", of |-> of, field |-> name]

ObjectPrototype == [jt |-> "proto", of |-> "Object"]
MapPrototype == [jt |-> "proto", of |-> "Map"]
ArrayPrototype == ArrayOf(<<>>, 0)

\* v && typeof v === 'object'
IsObjectJs(v) == v.jt \in {"object", "array", "node", "token", "map", "scope", "proto"}

\* v.type of an interpreter object, "" when v has none
TypeOf(v) == IF v.jt = "object" /\ "type" \in DOMAIN v THEN v.type ELSE ""

\* a node of the syntax tree, or what stands where a node can: null, undefined,
\* the number of a Literal, the statements of an else branch
AstValue(x) ==
    IF "jt" \notin DOMAIN x THEN [jt |-> "node", node |-> x]
    ELSE IF x.jt = "array"
    THEN ArrayOf([i \in 1 .. Len(x.elems) |-> [jt |-> "node", node |-> x.elems[i]]], -1)
    ELSE x

NodeArray(nodes) == ArrayOf([i \in 1 .. Len(nodes) |-> [jt |-> "node", node |-> nodes[i]]], -1)
TokenArray(toks) == ArrayOf([i \in 1 .. Len(toks) |-> [jt |-> "token", token |-> toks[i]]], -1)
StringArray(names) == ArrayOf([i \in 1 .. Len(names) |-> Str(names[i])], -1)

\* node[name] of a node of the syntax tree
NodeField(node, name) ==
    IF name \notin DOMAIN node THEN Undefined
    ELSE IF name \in {"type", "name", "operator", "property"}
    THEN Str(node[name])
    ELSE IF name = "value" /\ node.type = "Identifier" THEN Str(node.value)
    ELSE IF name = "callee" /\ node.type = "TypeConstruction"
    THEN Str(node.callee)
    ELSE IF name = "params" THEN StringArray(node.params)
    ELSE IF name = "bodyTokens" THEN TokenArray(node.bodyTokens)
    ELSE IF name \in {"body", "consequent", "arguments"} THEN NodeArray(node[name])
    ELSE AstValue(node[name])

\* token[name] of a token
TokenField(token, name) ==
    IF name \notin DOMAIN token THEN Undefined
    ELSE IF name \in {"line", "count"} THEN Num(token[name])
    ELSE Str(token[name])

\* v[name] for an own property of v; undefined when v has none of that name.
\* The size of a Map of the heap is with Property, which has the heap
JsField(v, name) ==
    CASE v.jt = "object" ->
             IF name \notin DOMAIN v \/ name \in {"jt", "id"} THEN Undefined
             ELSE IF name = "type" THEN Str(v.type)
             ELSE IF name = "params" THEN StringArray(v.params)
             ELSE IF name = "body" THEN NodeArray(v.body)
             ELSE IF name = "closure" THEN [jt |-> "scope", id |-> v.closure]
             ELSE IF name = "properties"
             THEN [jt |-> "map", keys |-> v.properties.keys, vals |-> v.properties.vals,
                   id |-> v.id]
             ELSE v[name]
      [] v.jt = "array" ->
             IF name = "length" THEN Num(Len(v.elems))
             ELSE Undefined
      [] v.jt = "map" ->
             IF name = "size" THEN Num(Len(v.keys))
             ELSE Undefined
      [] v.jt = "node" -> NodeField(v.node, name)
      [] v.jt = "token" -> TokenField(v.token, name)
      [] OTHER -> Undefined

\* the truthiness of a JavaScript value
Truthy(v) ==
    CASE v.jt \in {"undefined", "null", "NaN"} -> FALSE
      [] v.jt = "number" -> v.n # 0
      [] v.jt = "string" -> v.s # ""
      [] v.jt = "boolean" -> v.b
      [] OTHER -> TRUE

\* the characters of the source text that a token or a formatted value can hold, in
\* the order of their codes, 32 to 95 and 97 to 126
CodesTo95 == " !\"#$%&'()*+,-./0123456789:;<=>?@ABCDEFGHIJKLMNOPQRSTUVWXYZ[\\]^_"
CodesFrom97 == "abcdefghijklmnopqrstuvwxyz{|}~"

\* c.charCodeAt(0), -1 for a character outside those
CharCode(c) ==
    LET low == {i \in 1 .. Len(CodesTo95) : SubSeq(CodesTo95, i, i) = c}
        high == {i \in 1 .. Len(CodesFrom97) : SubSeq(CodesFrom97, i, i) = c}
    IN  IF low # {} THEN 31 + (CHOOSE i \in low : TRUE)
        ELSE IF high # {} THEN 96 + (CHOOSE i \in high : TRUE)
        ELSE 0 - 1

\* a < b for two strings: "lt", "eq" or "gt" by the first code unit that differs,
\* "far" when that one is outside the characters the model orders
RECURSIVE StringOrder(_, _, _)
StringOrder(a, b, i) ==
    IF i >= Len(a) /\ i >= Len(b) THEN "eq"
    ELSE IF i >= Len(a) THEN "lt"
    ELSE IF i >= Len(b) THEN "gt"
    ELSE IF CharAt(a, i) = CharAt(b, i) THEN StringOrder(a, b, i + 1)
    ELSE IF CharCode(CharAt(a, i)) < 0 \/ CharCode(CharAt(b, i)) < 0 THEN "far"
    ELSE IF CharCode(CharAt(a, i)) < CharCode(CharAt(b, i)) THEN "lt"
    ELSE "gt"

IsPrimitiveJs(v) == v.jt \in {"undefined", "null", "NaN", "number", "string", "boolean", "inexact"}
\* String(v) of a JavaScript value
RECURSIVE JsString(_)
\* Array.prototype.join(","): nothing for null and undefined
RECURSIVE joinComma(_, _)
joinComma(es, i) ==
    IF i > Len(es) THEN ""
    ELSE (IF i > 1 THEN "," ELSE "")
         \o (IF es[i].jt \in {"null", "undefined"} THEN "" ELSE JsString(es[i]))
         \o joinComma(es, i + 1)

JsString(v) ==
    CASE v.jt = "undefined" -> "undefined"
      [] v.jt = "null" -> "null"
      [] v.jt = "NaN" -> "NaN"
      [] v.jt = "number" -> IF v.n < 0 THEN "-" \o NatToString(-v.n) ELSE NatToString(v.n)
      [] v.jt = "string" -> v.s
      [] v.jt = "boolean" -> IF v.b THEN "true" ELSE "false"
      [] v.jt = "inexact" -> v.text
      [] v.jt = "array" -> joinComma(v.elems, 1)
      [] v.jt = "host" -> "function " \o v.field \o "() { [native code] }"
      [] v.jt \in {"map", "scope"} -> "[object Map]"
      [] v.jt = "proto" -> IF v.of = "Map" THEN "[object Map]" ELSE "[object Object]"
      [] OTHER -> "[object Object]"

\* the number of whitespace characters of s from 0-based position p
RECURSIVE SpaceRun(_, _)
SpaceRun(s, p) == IF IsWhitespace(CharAt(s, p)) THEN 1 + SpaceRun(s, p + 1) ELSE 0

RECURSIVE DropTrailingSpace(_)
DropTrailingSpace(s) ==
    IF Len(s) > 0 /\ IsWhitespace(CharAt(s, Len(s) - 1))
    THEN DropTrailingSpace(SubSeq(s, 1, Len(s) - 1)) ELSE s

\* the value of a digit of base 2 to 16 in either case, -1 for any other character
DigitOf(c, base) ==
    LET at == {k \in 0 .. base - 1 :
                 c # "" /\ (CharAt("0123456789abcdef", k) = c \/ CharAt("0123456789ABCDEF", k) = c)}
    IN  IF at = {} THEN 0 - 1 ELSE CHOOSE k \in at : TRUE

RECURSIVE RadixRun(_, _, _)
RadixRun(s, p, base) == IF DigitOf(CharAt(s, p), base) >= 0 THEN 1 + RadixRun(s, p + 1, base) ELSE 0

\* the value of the n digits of s from 0-based position p, read in the base
RECURSIVE RadixValue(_, _, _, _)
RadixValue(s, p, n, base) ==
    IF n = 0 THEN 0
    ELSE base * RadixValue(s, p, n - 1, base) + DigitOf(CharAt(s, p + n - 1), base)

\* the digits of s from p, in the base, as a number: as many of them as 2^28 spans
RadixNumber(s, p, base) ==
    IF RadixRun(s, p, base) > (CASE base = 16 -> 7 [] base = 8 -> 9 [] OTHER -> 28) THEN Beyond
    ELSE Num(RadixValue(s, p, RadixRun(s, p, base), base))

\* the base that the prefix 0x, 0o or 0b of s announces, 0 when s has none
PrefixBase(s) ==
    IF CharAt(s, 0) # "0" THEN 0
    ELSE IF CharAt(s, 1) \in {"x", "X"} THEN 16
    ELSE IF CharAt(s, 1) \in {"o", "O"} THEN 8
    ELSE IF CharAt(s, 1) \in {"b", "B"} THEN 2
    ELSE 0

\* the trimmed text t read as a number
TrimmedToNumber(t) ==
    IF t = "" THEN Num(0)
    ELSE IF t \in {"Infinity", "+Infinity"} THEN Infinity(FALSE)
    ELSE IF t = "-Infinity" THEN Infinity(TRUE)
    ELSE IF PrefixBase(t) # 0
    THEN (IF Len(t) > 2 /\ RadixRun(t, 2, PrefixBase(t)) = Len(t) - 2
          THEN RadixNumber(t, 2, PrefixBase(t)) ELSE NaN)
    ELSE NumberOf(t)

\* the text s read as a number by the arithmetic operators (ToNumber)
StringToNumber(s) ==
    TrimmedToNumber(DropTrailingSpace(SubSeq(s, SpaceRun(s, 0) + 1, Len(s))))

\* ToPrimitive: an object becomes the text toString gives
ToPrimitive(v) == IF IsPrimitiveJs(v) THEN v ELSE Str(JsString(v))

ToNumber(v) ==
    CASE v.jt \in {"number", "inexact", "NaN", "beyond"} -> v
      [] v.jt = "null" -> Num(0)
      [] v.jt = "undefined" -> NaN
      [] v.jt = "boolean" -> Num(IF v.b THEN 1 ELSE 0)
      [] OTHER -> StringToNumber(IF v.jt = "string" THEN v.s ELSE JsString(v))

\* parseInt(s, 10): white space, an optional sign and the digits that follow, else NaN
parseInt(s) ==
    LET from == SpaceRun(s, 0) + (IF CharAt(s, SpaceRun(s, 0)) \in {"-", "+"} THEN 1 ELSE 0)
    IN  IF DigitRun(s, from) = 0 THEN NaN
        ELSE NumberValue(Decimal(CharAt(s, SpaceRun(s, 0)) = "-",
                                 SubSeq(s, from + 1, from + DigitRun(s, from)), 0))

(***************************************************************************)
(* Arithmetic on the numbers of the model.  An operand takes part with the *)
(* decimal it stands for when a double holds that decimal exactly; the     *)
(* result is then the double nearest to the exact result, whose text is    *)
(* the text of the exact result as long as that has few enough digits.     *)
(***************************************************************************)
IsNegative(v) == IF v.jt = "number" THEN v.n < 0 ELSE CharAt(v.text, 0) = "-"

Negated(v) ==
    CASE v.jt = "number" -> Num(0 - v.n)
      [] v.jt = "inexact" -> Inexact(IF IsNegative(v) THEN SubSeq(v.text, 2, Len(v.text))
                                     ELSE "-" \o v.text)
      [] OTHER -> v

\* the mantissa and exponent of the decimal d: +- m * 10^e, m of k digits
Mantissa(d) ==
    [neg |-> d.neg, k |-> Len(d.digits), m |-> DigitsValue(d.digits, Len(d.digits)),
     e |-> d.n - Len(d.digits)]

\* a double holds the decimal d exactly, and the model computes with it
Computable(d) ==
    /\ Len(d.digits) <= MantissaDigits
    /\ \/ IsZero(d)
       \/ d.n >= Len(d.digits) /\ d.n <= 15
       \/ /\ d.n < Len(d.digits) /\ Len(d.digits) - d.n <= 12
          /\ DigitsValue(d.digits, Len(d.digits)) % Pow5(Len(d.digits) - d.n) = 0

Signed(a) == IF a.neg THEN 0 - a.m ELSE a.m
Abs(n) == IF n < 0 THEN 0 - n ELSE n

\* a + b for two mantissas
Sum(a, b) ==
    LET e0 == IF a.e < b.e THEN a.e ELSE b.e
        total == Signed(a) * Pow10(a.e - e0) + Signed(b) * Pow10(b.e - e0)
    IN  IF a.k + (a.e - e0) > MantissaDigits \/ b.k + (b.e - e0) > MantissaDigits THEN Beyond
        ELSE NumberValue(Decimal(total < 0, NatToString(Abs(total)), e0))

\* a * b for two mantissas
Product(a, b) ==
    IF a.k + b.k > MantissaDigits THEN Beyond
    ELSE NumberValue(Decimal(a.neg # b.neg, NatToString(a.m * b.m), a.e + b.e))

\* a / b for two mantissas, b not zero: the quotient when it has few enough digits
Quotient(a, b) ==
    LET shifts == {j \in 0 .. MantissaDigits - a.k : (a.m * Pow10(j)) % b.m = 0}
        j == CHOOSE x \in shifts : \A y \in shifts : x <= y
    IN  IF shifts = {} THEN Beyond
        ELSE NumberValue(Decimal(a.neg # b.neg, NatToString((a.m * Pow10(j)) \div b.m),
                                 a.e - b.e - j))

\* x op y for the decimals of two finite numbers
DecimalArithmetic(op, dx, dy) ==
    IF op = "/" /\ IsZero(dy)
    THEN (IF IsZero(dx) THEN NaN ELSE Infinity(dx.neg))
    ELSE IF (op \in {"*", "/"} /\ IsZero(dx)) \/ (op = "*" /\ IsZero(dy))
    THEN NumberValue(Decimal(dx.neg # dy.neg, "0", 0))
    ELSE IF op \in {"+", "-"} /\ IsZero(dy) THEN NumberValue(dx)
    ELSE IF op = "+" /\ IsZero(dx) THEN NumberValue(dy)
    ELSE IF op = "-" /\ IsZero(dx) THEN NumberValue([dy EXCEPT !.neg = ~@])
    ELSE IF ~(Computable(dx) /\ Computable(dy)) THEN Beyond
    ELSE CASE op = "+" -> Sum(Mantissa(dx), Mantissa(dy))
           [] op = "-" -> Sum(Mantissa(dx), Mantissa([dy EXCEPT !.neg = ~@]))
           [] op = "*" -> Product(Mantissa(dx), Mantissa(dy))
           [] op = "/" -> Quotient(Mantissa(dx), Mantissa(dy))

\* x op y for two finite numbers
FiniteArithmetic(op, x, y) ==
    DecimalArithmetic(op, DecimalOfValue(x), DecimalOfValue(y))

\* x op y for two numbers, an infinity among them
InfiniteArithmetic(op, x, y) ==
    CASE op = "-" -> IF x = y THEN NaN ELSE IF IsInfinity(x) THEN x ELSE Negated(y)
      [] op = "+" -> IF IsInfinity(x) /\ IsInfinity(y) /\ x # y THEN NaN
                     ELSE IF IsInfinity(x) THEN x ELSE y
      [] op = "*" -> IF x = Num(0) \/ y = Num(0) THEN NaN
                     ELSE Infinity(IsNegative(x) # IsNegative(y))
      [] op = "/" -> IF IsInfinity(x) /\ IsInfinity(y) THEN NaN
                     ELSE IF IsInfinity(x) THEN Infinity(IsNegative(x) # IsNegative(y))
                     ELSE NumberValue(Decimal(IsNegative(x) # IsNegative(y), "0", 0))

\* x op y for two numbers, NaN and the infinities among them
NumberArithmetic(op, x, y) ==
    IF x.jt = "beyond" \/ y.jt = "beyond" THEN Beyond
    ELSE IF x.jt = "NaN" \/ y.jt = "NaN" THEN NaN
    ELSE IF IsInfinity(x) \/ IsInfinity(y) THEN InfiniteArithmetic(op, x, y)
    ELSE FiniteArithmetic(op, x, y)

\* x op y for the arithmetic operators, on two primitives
PrimitiveArithmetic(op, x, y) ==
    IF op = "+" /\ (x.jt = "string" \/ y.jt = "string")
    THEN Str(JsString(x) \o JsString(y))
    ELSE NumberArithmetic(op, ToNumber(x), ToNumber(y))

\* x op y when one operand is -0: -0 + y is 0 + y for every y that is not -0
ZeroArithmetic(op, x, y) ==
    IF op = "+" /\ x.jt # y.jt
    THEN PrimitiveArithmetic(op, ToPrimitive(IF x.jt = "negzero" THEN Num(0) ELSE x),
                             ToPrimitive(IF y.jt = "negzero" THEN Num(0) ELSE y))
    ELSE Beyond

\* x op y for the arithmetic operators, on unwrapped operands
Arithmetic(op, x, y) ==
    IF x.jt = "beyond" \/ y.jt = "beyond" THEN Beyond
    ELSE IF x.jt = "negzero" \/ y.jt = "negzero" THEN ZeroArithmetic(op, x, y)
    ELSE PrimitiveArithmetic(op, ToPrimitive(x), ToPrimitive(y))

\* the order of two numbers that are not NaN: "lt", "eq" or "gt"
MagnitudeOrder(a, b) ==
    IF a.n # b.n THEN (IF a.n < b.n THEN "lt" ELSE "gt")
    ELSE LET w == IF Len(a.digits) > Len(b.digits) THEN Len(a.digits) ELSE Len(b.digits)
             pa == a.digits \o Zeros(w - Len(a.digits))
             pb == b.digits \o Zeros(w - Len(b.digits))
         IN  IF pa = pb THEN "eq" ELSE IF DigitsLess(pa, pb, 0) THEN "lt" ELSE "gt"

DecimalOrder(a, b) ==
    IF IsZero(a) /\ IsZero(b) THEN "eq"
    ELSE IF IsZero(a) THEN (IF b.neg THEN "gt" ELSE "lt")
    ELSE IF IsZero(b) THEN (IF a.neg THEN "lt" ELSE "gt")
    ELSE IF a.neg # b.neg THEN (IF a.neg THEN "lt" ELSE "gt")
    ELSE IF a.neg THEN MagnitudeOrder(b, a)
    ELSE MagnitudeOrder(a, b)

NumberOrder(x, y) ==
    IF x = y THEN "eq"
    ELSE IF x = Infinity(TRUE) \/ y = Infinity(FALSE) THEN "lt"
    ELSE IF x = Infinity(FALSE) \/ y = Infinity(TRUE) THEN "gt"
    ELSE DecimalOrder(DecimalOfValue(x), DecimalOfValue(y))

\* the order of two numbers, "un" when one is NaN, "far" when the model has not one
NumericOrder(x, y) ==
    IF x.jt = "beyond" \/ y.jt = "beyond" THEN "far"
    ELSE IF x.jt = "NaN" \/ y.jt = "NaN" THEN "un"
    ELSE NumberOrder(x, y)

\* the order of two primitives as the relational operators see it, "un" when
\* a NaN makes every one of them false
PrimitiveOrder(x, y) ==
    IF x.jt = "string" /\ y.jt = "string" THEN StringOrder(x.s, y.s, 0)
    ELSE NumericOrder(ToNumber(x), ToNumber(y))

\* the model tells which object v is: the objects the interpreter makes are
\* numbered, and the functions and prototypes of the host are one of each
HasIdentity(v) == v.jt \in {"host", "proto", "scope"} \/ ("id" \in DOMAIN v /\ v.id >= 0)

\* an order as == sees it
Equality(order) == IF order \in {"eq", "far"} THEN order ELSE "ne"

\* x == y for two primitives, none of them null or undefined
LoosePrimitive(x, y) ==
    IF x.jt = "string" /\ y.jt = "string" THEN (IF x.s = y.s THEN "eq" ELSE "ne")
    ELSE Equality(PrimitiveOrder(x, y))

\* x == y: "eq", "ne", or "far" when the model cannot tell
LooseOrder(x, y) ==
    IF x.jt \in {"null", "undefined"} \/ y.jt \in {"null", "undefined"}
    THEN (IF x.jt \in {"null", "undefined"} /\ y.jt \in {"null", "undefined"}
          THEN "eq" ELSE "ne")
    ELSE IF ~IsPrimitiveJs(x) /\ ~IsPrimitiveJs(y)
    THEN (IF x # y THEN "ne" ELSE IF HasIdentity(x) THEN "eq" ELSE "far")
    ELSE LoosePrimitive(ToPrimitive(x), ToPrimitive(y))

\* what the operator op makes of the order of its operands
Verdict(op, order) ==
    IF order = "far" THEN Beyond
    ELSE Bool(CASE op = "==" -> order = "eq"
                [] op = "!=" -> order # "eq"
                [] op = "<" -> order = "lt"
                [] op = ">" -> order = "gt"
                [] op = "<=" -> order \in {"lt", "eq"}
                [] op = ">=" -> order \in {"gt", "eq"})

\* x op y for the comparison operators, on unwrapped operands
Comparison(op, x, y) ==
    Verdict(op, IF op \in {"==", "!="} THEN LooseOrder(x, y)
                ELSE PrimitiveOrder(ToPrimitive(x), ToPrimitive(y)))

\* (a && a.value !== undefined) ? a.value : a
Unwrap(a) == IF Truthy(a) /\ JsField(a, "value") # Undefined THEN JsField(a, "value") ELSE a

\* { type: 'primitive', value: v }, for a value v the model has
PrimitiveOf(v) == IF v.jt = "beyond" THEN Beyond ELSE Primitive(v)

applyOp(op, a, b) ==
    IF op \in AdditiveOps THEN Arithmetic(op, Unwrap(a), Unwrap(b))
    ELSE IF op \in ComparisonOps
    THEN PrimitiveOf(Comparison(op, Unwrap(a), Unwrap(b)))
    ELSE Num(0)

RECURSIVE formatOutput(_)
\* elements joined by ", "
RECURSIVE formatElements(_, _)
formatElements(es, i) ==
    IF i > Len(es) THEN ""
    ELSE (IF i > 1 THEN ", " ELSE "") \o formatOutput(es[i]) \o formatElements(es, i + 1)

RECURSIVE formatProperties(_, _)
formatProperties(m, i) ==
    IF i > Len(m.keys) THEN ""
    ELSE (IF i > 1 THEN ", " ELSE "") \o JsString(m.keys[i]) \o ": "
         \o formatOutput(m.vals[m.keys[i]]) \o formatProperties(m, i + 1)

formatOutput(val) ==
    CASE val.jt \in {"null", "undefined"} -> "undefined"
      [] val.jt = "array" -> "[" \o formatElements(val.elems, 1) \o "]"
      [] IsObjectJs(val) /\ JsField(val, "type") = Str("primitive") ->
             JsString(JsField(val, "value"))
      [] IsObjectJs(val) /\ JsField(val, "type") = Str("OBJECT") ->
             "{ " \o formatProperties(val.properties, 1) \o " }"
      [] IsObjectJs(val) /\ JsField(val, "value") # Undefined ->
             JsString(JsField(val, "value"))
      [] OTHER -> JsString(val)

(***************************************************************************)
(* The interpreter.  Its operators thread the state st of the run, a       *)
(* record of heap, output, evalResult, trace, fuel, nextId, made, draws    *)
(* (what the calls of Math.random() give, in order), drawn (how many of    *)
(* them were made),                                                        *)
(* frame (the call being executed, 0 at top level), loops (the loops open in *)
(* that call, innermost last) and stuck (the fuel ran out).  Each returns  *)
(* the state, the value returned and whether an error was thrown.          *)
(***************************************************************************)
Globals == 1

Log(st, e) == [st EXCEPT !.trace = Append(@, e)]

Done(st, v) == [st |-> st, val |-> v, thrown |-> FALSE, message |-> ""]

\* throw new Error(msg)
Throw(st, msg) ==
    [st |-> Log(st, [ev |-> "throw", message |-> msg, frame |-> st.frame]),
     val |-> Undefined, thrown |-> TRUE, message |-> msg]

\* the run leaves the bounds of the model
Exhausted(st) ==
    [st |-> [st EXCEPT !.stuck = TRUE], val |-> Undefined, thrown |-> TRUE, message |-> ""]

\* the value v goes on, unless it is outside the numbers of the model
Valued(st, v) == IF v.jt = "beyond" THEN Exhausted(st) ELSE Done(st, v)

\* { type: 'primitive', value: v }
Boxed(st, v) == IF v.jt = "beyond" THEN Exhausted(st) ELSE Done(st, Primitive(v))

\* the interpreter makes an object: the state after, and which object it is
Made(st) == [st EXCEPT !.made = @ + 1]
NextObject(st) == st.made + 1

\* Map.has, Map.get and Map.set on the Map at heap[scope]
has(st, scope, name) == name \in DOMAIN st.heap[scope]
get(st, scope, name) == st.heap[scope][name]
set(st, scope, name, v) == [st EXCEPT !.heap[scope] = (name :> v) @@ @]

\* a variant of Lookup that looks in the scope only
LookupScopeOnly(st, scope, name) ==
    IF has(st, scope, name) THEN [bound |-> TRUE, val |-> get(st, scope, name)]
    ELSE [bound |-> FALSE, val |-> Str(name)]

\* the value of a name: the scope, then the globals; none when unbound
Lookup(st, scope, name) ==
    IF has(st, scope, name) THEN [bound |-> TRUE, val |-> get(st, scope, name)]
    ELSE IF has(st, Globals, name) THEN [bound |-> TRUE, val |-> get(st, Globals, name)]
    ELSE [bound |-> FALSE, val |-> Str(name)]

\* result && (result.type === 'RETURN' || 'BREAK' || 'CONTINUE')
IsControl(v) == TypeOf(v) \in {"RETURN", "BREAK", "CONTINUE"}

\* cond && (cond.value !== false && cond.value !== 0)
ConditionHolds(cond) ==
    /\ Truthy(cond)
    /\ JsField(cond, "value") # Bool(FALSE)
    /\ JsField(cond, "value") # Num(0)

\* !c || c.value === false || c.value === 0
LoopStops(c) ==
    \/ ~Truthy(c)
    \/ JsField(c, "value") = Bool(FALSE)
    \/ JsField(c, "value") = Num(0)

\* the loop the statement being executed is directly inside, 0 when none
CurrentLoop(st) == IF st.loops = <<>> THEN 0 ELSE st.loops[Len(st.loops)]

\* the functions of Object.prototype
ObjectProto == {"__defineGetter__", "__defineSetter__", "hasOwnProperty",
                "__lookupGetter__", "__lookupSetter__", "isPrototypeOf",
                "propertyIsEnumerable", "toString", "valueOf", "toLocaleString"}
\* the functions of Array.prototype
ArrayProto == {"at", "concat", "copyWithin", "fill", "find", "findIndex", "findLast",
               "findLastIndex", "lastIndexOf", "pop", "push", "reverse", "shift",
               "unshift", "slice", "sort", "splice", "includes", "indexOf", "join",
               "keys", "entries", "values", "forEach", "filter", "flat", "flatMap",
               "map", "every", "some", "reduce", "reduceRight", "toLocaleString",
               "toString", "toReversed", "toSorted", "toSpliced", "with"}
\* the functions of Map.prototype
MapProto == {"get", "set", "has", "delete", "clear", "entries", "forEach", "keys",
             "values"}

\* the prototype that obj[prop] goes to first when obj has no own prop, the
\* prototypes counting as their own
PrototypeName(obj) ==
    IF obj.jt = "array" THEN "Array"
    ELSE IF obj.jt \in {"map", "scope"} \/ obj = MapPrototype THEN "Map"
    ELSE "Object"

\* Object.getPrototypeOf(obj), which obj.__proto__ reads
PrototypeOf(obj) ==
    IF obj = ObjectPrototype THEN Null
    ELSE IF obj = ArrayPrototype \/ obj = MapPrototype THEN ObjectPrototype
    ELSE IF obj.jt = "array" THEN ArrayPrototype
    ELSE IF obj.jt \in {"map", "scope"} THEN MapPrototype
    ELSE ObjectPrototype

\* what the prototype named of, and the prototypes behind it, have for prop
Inherited(of, prop) ==
    IF of = "Array" /\ prop \in ArrayProto THEN Native("Array", prop)
    ELSE IF of = "Map" /\ prop \in MapProto THEN Native("Map", prop)
    ELSE IF prop = "constructor" THEN Native("", of)
    ELSE IF prop \in ObjectProto THEN Native("Object", prop)
    ELSE Undefined

\* obj[prop] of an object or an array, st.heap holding the Maps that are scopes
Property(st, obj, prop) ==
    IF obj.jt = "scope" /\ prop = "size" THEN Num(Cardinality(DOMAIN st.heap[obj.id]))
    ELSE IF JsField(obj, prop) # Undefined THEN JsField(obj, prop)
    ELSE IF prop = "__proto__" THEN PrototypeOf(obj)
    ELSE Inherited(PrototypeName(obj), prop)

\* a variant of Element that counts the elements from 1
ElementFromOne(obj, idx) ==
    IF idx >= 1 /\ idx <= Len(obj.elems) THEN obj.elems[idx] ELSE Undefined

\* obj[idx] of an array, 0-based
Element(obj, idx) == IF idx < Len(obj.elems) THEN obj.elems[idx + 1] ELSE Undefined

\* /^\d+$/.test(s)
AllDigits(s) == Len(s) > 0 /\ DigitRun(s, 0) = Len(s)

\* the control characters of the codes 1 to 31, in the order of their codes
\* (the character of code 0 is in no text of the model)
ControlChars == "\t\n\f\r"

\* the code of the control character c
ControlCode(c) == CHOOSE k \in 1 .. 31 : CharAt(ControlChars, k - 1) = c

HexDigit(k) == CharAt("0123456789abcdef", k)

\* QuoteJSONString on one character: the quote and the backslash after a
\* backslash, a control character by its short form or as \u00 and two
\* hexadecimal digits, every other character as it is
JsonCharacter(c) ==
    IF c \in {"\"", "\\"} THEN "\\" \o c
    ELSE IF c \notin {CharAt(ControlChars, k) : k \in 0 .. 30} THEN c
    ELSE CASE ControlCode(c) = 8 -> "\\b"
           [] ControlCode(c) = 9 -> "\\t"
           [] ControlCode(c) = 10 -> "\\n"
           [] ControlCode(c) = 12 -> "\\f"
           [] ControlCode(c) = 13 -> "\\r"
           [] OTHER -> "\\u00" \o HexDigit(ControlCode(c) \div 16)
                                \o HexDigit(ControlCode(c) % 16)

\* JSON.stringify of a string, without the quotes around it
RECURSIVE JsonEscaped(_, _)
JsonEscaped(s, p) ==
    IF p >= Len(s) THEN "" ELSE JsonCharacter(CharAt(s, p)) \o JsonEscaped(s, p + 1)

\* the names of the fields of the objects of the interpreter, of the nodes and of
\* the tokens, in the order in which an object that has some of them was given them
FieldOrder == <<"type", "name", "init", "test", "update", "consequent", "alternate",
                "params", "body", "closure", "left", "operator", "right", "object",
                "property", "callee", "arguments", "bodyTokens", "expression", "value",
                "line", "count", "result", "properties">>

\* JSON.stringify leaves out a field and writes null for an element that holds v
JsonSkips(v) == v.jt \in {"undefined", "host"}

\* JSON.stringify(v) as the error message shows it
RECURSIVE Json(_)
RECURSIVE JsonElements(_, _)
JsonElements(es, i) ==
    IF i > Len(es) THEN ""
    ELSE (IF i > 1 THEN "," ELSE "")
         \o (IF JsonSkips(es[i]) THEN "null" ELSE Json(es[i]))
         \o JsonElements(es, i + 1)

\* the fields of v from field i of FieldOrder; first: none is written yet
RECURSIVE JsonFields(_, _, _)
JsonFields(v, i, first) ==
    IF i > Len(FieldOrder) THEN ""
    ELSE IF JsonSkips(JsField(v, FieldOrder[i])) THEN JsonFields(v, i + 1, first)
    ELSE (IF first THEN "" ELSE ",") \o "\"" \o FieldOrder[i] \o "\":"
         \o Json(JsField(v, FieldOrder[i])) \o JsonFields(v, i + 1, FALSE)

Json(v) ==
    CASE v.jt = "string" -> "\"" \o JsonEscaped(v.s, 0) \o "\""
      [] v.jt = "NaN" \/ IsInfinity(v) -> "null"
      [] v.jt = "array" -> "[" \o JsonElements(v.elems, 1) \o "]"
      [] v.jt \in {"object", "node", "token"} -> "{" \o JsonFields(v, 1, TRUE) \o "}"
      [] v.jt \in {"map", "scope", "proto"} -> "{}"
      [] JsonSkips(v) -> "undefined"
      [] OTHER -> JsString(v)

\* the MemberExpression case of evaluate, once the object is evaluated
memberOf(obj, prop, st) ==
    LET isE == Len(prop) > 1 /\ CharAt(prop, 0) = "e"
                 /\ AllDigits(SubSeq(prop, 2, Len(prop)))
        digits == Significant(IF isE THEN SubSeq(prop, 2, Len(prop)) ELSE prop)
        idx == IF Len(digits) > MantissaDigits THEN Pow10(MantissaDigits)
               ELSE DigitsValue(digits, Len(digits))
    IN  IF obj.jt = "array" /\ prop = "val" THEN Done(st, obj)
        ELSE IF obj.jt = "array" /\ (isE \/ AllDigits(prop))
        THEN IF Element(obj, idx) # Undefined THEN Done(st, Element(obj, idx))
             ELSE Done(st, Primitive(Str("undefined")))
        ELSE IF TypeOf(obj) = "OBJECT" /\ Str(prop) \in DOMAIN obj.properties.vals
        THEN Done(st, obj.properties.vals[Str(prop)])
        ELSE IF obj = MapPrototype /\ prop = "size"
        THEN Throw(st, "Method get Map.prototype.size called on incompatible receiver "
                       \o "#<Map>")
        ELSE IF IsObjectJs(obj) /\ Property(st, obj, prop) # Undefined
        THEN Done(st, Property(st, obj, prop))
        ELSE IF Truthy(obj) /\ prop = "result" THEN Done(st, Undefined)
        ELSE Throw(st, "Cannot access property '" \o prop \o "' of " \o Json(obj))

\* history: a member access, r being what it came to
MemberEvent(obj, prop, r) ==
    [ev |-> "member", object |-> obj, property |-> prop, frame |-> r.st.frame,
     raised |-> r.thrown, value |-> r.val]

\* the rest K of a method runs on the result r of a step that did not throw
AndThen(r, K(_)) == IF r.thrown THEN r ELSE K(r)

RECURSIVE evaluate(_, _, _)
RECURSIVE execute(_, _, _)
RECURSIVE blockFrom(_, _, _, _)
RECURSIVE handleCall(_, _, _)
RECURSIVE callUserFunction(_, _, _, _)
RECURSIVE handleTypeConstruction(_, _, _)
RECURSIVE evaluateSegment(_, _, _)

\* executeBlock: the statements in order, until one yields a control result
executeBlock(statements, scope, st) == blockFrom(statements, 1, scope, st)

blockFrom(statements, i, scope, st) ==
    IF i > Len(statements) THEN Done(st, Undefined)
    ELSE AndThen(execute(statements[i], scope, st),
             LAMBDA r : IF IsControl(r.val) THEN r
                        ELSE blockFrom(statements, i + 1, scope, r.st))

\* history: an Identifier evaluated in a scope, the bindings of its name in the
\* scope and in the globals then, and what the evaluation r came to
IdentifierEvent(st, scope, name, r) ==
    [ev |-> "identifier", name |-> name, scope |-> scope, frame |-> st.frame,
     inScope |-> has(st, scope, name),
     scopeValue |-> IF has(st, scope, name) THEN get(st, scope, name) ELSE Undefined,
     inGlobals |-> has(st, Globals, name),
     globalValue |-> IF has(st, Globals, name) THEN get(st, Globals, name) ELSE Undefined,
     raised |-> r.thrown, value |-> r.val]

\* the Identifier case of evaluate
evalIdentifier(node, scope, st) ==
    Done(Log(st, IdentifierEvent(st, scope, node.value,
                                 Done(st, Lookup(st, scope, node.value).val))),
         Lookup(st, scope, node.value).val)

\* the BinaryExpression case of evaluate
evalBinary(node, scope, st) ==
    AndThen(evaluate(node.left, scope, st),
        LAMBDA left :
    AndThen(evaluate(node.right, scope, left.st),
        LAMBDA right : Valued(right.st, applyOp(node.operator, left.val, right.val))))

\* the MemberExpression case of evaluate
evalMember(node, scope, st) ==
    AndThen(evaluate(node.object, scope, st),
        LAMBDA obj : memberOf(obj.val, node.property,
                              Log(obj.st, MemberEvent(obj.val, node.property,
                                          memberOf(obj.val, node.property, obj.st)))))

evaluate(node, scope, st) ==
    IF "type" \notin DOMAIN node THEN Done(st, Null)
    ELSE CASE node.type = "Literal" -> Valued(st, node.value)
           [] node.type = "Identifier" -> evalIdentifier(node, scope, st)
           [] node.type = "BinaryExpression" -> evalBinary(node, scope, st)
           [] node.type = "CallExpression" -> handleCall(node, scope, st)
           [] node.type = "MemberExpression" -> evalMember(node, scope, st)
           [] node.type = "TypeConstruction" -> handleTypeConstruction(node, scope, st)
           [] OTHER -> Throw(st, "Unknown node type: " \o node.type)

\* node.arguments[i], 0-based: undefined past the end
ArgumentAt(args, i) == IF i < Len(args) THEN args[i + 1] ELSE Undefined

\* print: the arguments evaluated and formatted in order; texts so far in acc
RECURSIVE printArguments(_, _, _, _, _)
printArguments(args, i, scope, st, acc) ==
    IF i > Len(args) THEN Done(st, acc)
    ELSE AndThen(evaluate(args[i], scope, st),
             LAMBDA v : printArguments(args, i + 1, scope, v.st,
                                       Append(acc, formatOutput(v.val))))

\* a variant of joinSpace that puts nothing between the texts
RECURSIVE joinTight(_, _)
joinTight(texts, i) ==
    IF i > Len(texts) THEN "" ELSE texts[i] \o joinTight(texts, i + 1)

\* texts.join(' ')
RECURSIVE joinSpace(_, _)
joinSpace(texts, i) ==
    IF i > Len(texts) THEN ""
    ELSE (IF i > 1 THEN " " ELSE "") \o texts[i] \o joinSpace(texts, i + 1)

\* history: a print call hands its line to the output callback, the call-th call
\* of it in the run; texts are the formatted arguments
PrintEvent(node, st, texts) ==
    [ev |-> "print", frame |-> st.frame, arguments |-> Len(node.arguments),
     texts |-> texts, call |-> Len(st.output) + 1]

\* the print case of handleCall
callPrint(node, scope, st) ==
    AndThen(printArguments(node.arguments, 1, scope, st, <<>>),
        LAMBDA a : Done(Log([a.st EXCEPT !.output = Append(@, <<joinSpace(a.val, 1)>>)],
                            PrintEvent(node, a.st, a.val)),
                        Undefined))

\* Math.floor(Math.random() * (vMax - vMin + 1)) + vMin, Math.random() being
\* draw / RandomSteps
\* Math.floor of the number whose decimal is d
FloorOf(d) ==
    LET whole == DigitsValue(SubSeq(d.digits, 1, d.n), d.n)
    IN  IF IsInteger(d) THEN NumberValue(d)
        ELSE IF d.n <= 0 THEN Num(IF d.neg THEN 0 - 1 ELSE 0)
        ELSE IF d.n > MantissaDigits
        THEN (IF d.neg THEN Beyond ELSE NumberValue(Decimal(FALSE, SubSeq(d.digits, 1, d.n), 0)))
        ELSE IF d.neg THEN NumberValue(Decimal(TRUE, NatToString(whole + 1), 0))
        ELSE Num(whole)

\* Math.floor(v) for a number v
Floor(v) == IF v.jt # "inexact" \/ IsInfinity(v) THEN v ELSE FloorOf(DecimalOfValue(v))

\* Math.floor(Math.random() * span), Math.random() being draw / RandomSteps.
\* For a span above 0 the code gives 0 .. span - 1, for a span below 0 it gives
\* span .. -1 and -0.  The draws give every one of them when span is an integer
\* above -RandomSteps and at most RandomSteps, NaN or infinite; another span
\* is outside the model
RandomBelow(span, draw) ==
    IF span.jt = "number"
    THEN (IF span.n > RandomSteps \/ span.n <= 0 - RandomSteps THEN Beyond
          ELSE IF draw * span.n = 0 /\ span.n < 0 THEN NegZero
          ELSE Num((draw * span.n) \div RandomSteps))
    ELSE IF span.jt = "inexact" /\ ~IsInfinity(span) THEN Beyond
    ELSE Floor(Arithmetic("*", Arithmetic("/", Num(draw), Num(RandomSteps)), span))

\* Math.floor(Math.random() * (vMax - vMin + 1)) + vMin
RandomBetween(vMin, vMax, draw) ==
    Arithmetic("+",
               RandomBelow(Arithmetic("+", Arithmetic("-", vMax, vMin), Num(1)), draw),
               vMin)

\* (v.value !== undefined) ? v.value : v
ValueOrSelf(v) == IF JsField(v, "value") # Undefined THEN JsField(v, "value") ELSE v

\* history: a call of random with n arguments, r being what it came to
RandomEvent(st, n, min, max, r) ==
    [ev |-> "random", args |-> n, min |-> min, max |-> max, frame |-> st.frame,
     raised |-> r.thrown, result |-> r.val]

\* the call of random once its two argument expressions are evaluated: it
\* calls Math.random() once, which gives the next of the draws of the statement
randomOf(st, min, max) ==
    IF min.jt \in {"null", "undefined"} \/ max.jt \in {"null", "undefined"}
    THEN [st |-> st, val |-> Undefined, thrown |-> TRUE,
          message |-> "Cannot read properties of " \o
                      (IF min.jt \in {"null", "undefined"} THEN min.jt ELSE max.jt)
                      \o " (reading 'value')"]
    ELSE IF st.drawn >= Len(st.draws) THEN Exhausted(st)
    ELSE Valued([st EXCEPT !.drawn = @ + 1],
                RandomBetween(ValueOrSelf(min), ValueOrSelf(max), st.draws[st.drawn + 1]))

\* the outcome r of the call of random, logged and then returned or thrown
randomOutcome(r, n, min, max) ==
    IF r.thrown THEN Throw(Log(r.st, RandomEvent(r.st, n, min, max, r)), r.message)
    ELSE Done(Log(r.st, RandomEvent(r.st, n, min, max, r)), r.val)

callRandom(node, scope, st) ==
    AndThen(evaluate(ArgumentAt(node.arguments, 0), scope, st),
        LAMBDA min :
    AndThen(evaluate(ArgumentAt(node.arguments, 1), scope, min.st),
        LAMBDA max : randomOutcome(randomOf(max.st, min.val, max.val),
                                   Len(node.arguments), min.val, max.val)))

\* { result: v }
evalCell(v, id) == [jt |-> "object", result |-> v, id |-> id]

\* a variant of evalStore that keeps the result stored before
evalStoreNothing(st, v) == st

\* this.evalResult = argVal
evalStore(st, v) == [st EXCEPT !.evalResult = v]

\* history: a call of eval with n arguments, from state st to state stored
EvalEvent(st, stored, n, v, cell) ==
    [ev |-> "eval", args |-> n, arg |-> v, cell |-> cell, frame |-> st.frame,
     before |-> st.evalResult, after |-> stored.evalResult]

callEval(node, scope, st) ==
    IF Len(node.arguments) = 0
    THEN Done(Log(Made(st), EvalEvent(st, st, 0, Undefined,
                                      evalCell(st.evalResult, NextObject(st)))),
              evalCell(st.evalResult, NextObject(st)))
    ELSE AndThen(evaluate(node.arguments[1], scope, st),
             LAMBDA argVal :
                 Done(Log(evalStore(Made(argVal.st), argVal.val),
                          EvalEvent(argVal.st, evalStore(argVal.st, argVal.val),
                                    Len(node.arguments), argVal.val,
                                    evalCell(argVal.val, NextObject(argVal.st)))),
                      evalCell(argVal.val, NextObject(argVal.st))))

\* calleeName as the error message shows it
CalleeName(node) == IF node.callee.type = "Identifier" THEN node.callee.value ELSE "null"

\* the end of handleCall: the callee evaluated as an expression
callValue(node, scope, st) ==
    AndThen(evaluate(node.callee, scope, st),
        LAMBDA func : IF TypeOf(func.val) = "FUNCTION"
                      THEN callUserFunction(func.val, node.arguments, scope, func.st)
                      ELSE Throw(func.st, "Unknown function: " \o CalleeName(node)))

\* obj.properties.get(name) is a function
HasMethod(obj, name) ==
    /\ Str(name) \in DOMAIN obj.properties.vals
    /\ TypeOf(obj.properties.vals[Str(name)]) = "FUNCTION"

\* handleCall when the callee is a MemberExpression
callMember(node, scope, st) ==
    AndThen(evaluate(node.callee.object, scope, st),
        LAMBDA obj :
            IF obj.val.jt \in {"null", "undefined"}
            THEN Throw(obj.st, "Cannot read properties of " \o obj.val.jt
                               \o " (reading 'properties')")
            ELSE IF TypeOf(obj.val) # "OBJECT"
            THEN Throw(obj.st, "Cannot read properties of undefined (reading 'get')")
            ELSE IF HasMethod(obj.val, node.callee.property)
            THEN callUserFunction(obj.val.properties.vals[Str(node.callee.property)],
                                  node.arguments, scope, obj.st)
            ELSE callValue(node, scope, obj.st))

handleCall(node, scope, st) ==
    CASE node.callee.type = "Identifier" /\ node.callee.value = "print" ->
             callPrint(node, scope, st)
      [] node.callee.type = "Identifier" /\ node.callee.value = "random" ->
             callRandom(node, scope, st)
      [] node.callee.type = "Identifier" /\ node.callee.value = "eval" ->
             callEval(node, scope, st)
      [] node.callee.type = "MemberExpression" -> callMember(node, scope, st)
      [] OTHER -> callValue(node, scope, st)

\* a variant of newMap that starts the scope of a call empty
newMapEmpty(func, st) == <<>>

\* new Map(func.closure)
newMap(func, st) == st.heap[func.closure]

\* history: parameter i of func bound in funcScope to val, the value of argNode;
\* st is the state before the argument was evaluated
BindEvent(st, func, i, argNode, callerScope, funcScope, val, after) ==
    [ev |-> "bind", frame |-> st.frame, param |-> func.params[i], argument |-> argNode,
     callerScope |-> callerScope, funcScope |-> funcScope,
     callerBefore |-> st.heap[callerScope], closure |-> st.heap[func.closure],
     callerEvaluated |-> val.st.heap[callerScope], value |-> val.val,
     callerAfter |-> after.heap[callerScope], funcAfter |-> after.heap[funcScope]]

\* funcScope.set(param, val) is done: the state after it, with its history
Bound(st, func, i, argNode, callerScope, funcScope, val, after) ==
    Log(after, BindEvent(st, func, i, argNode, callerScope, funcScope, val, after))

\* a variant of bindParams that evaluates the arguments in the scope of the call
RECURSIVE bindParamsInFunctionScope(_, _, _, _, _, _)
bindParamsInFunctionScope(func, argNodes, i, callerScope, funcScope, st) ==
    IF i > Len(func.params) THEN Done(st, Undefined)
    ELSE AndThen(evaluate(ArgumentAt(argNodes, i - 1), funcScope, st),
             LAMBDA val : bindParamsInFunctionScope(func, argNodes, i + 1, callerScope, funcScope,
                 Bound(st, func, i, ArgumentAt(argNodes, i - 1), callerScope, funcScope,
                       val, set(val.st, funcScope, func.params[i], val.val))))

\* the parameter loop of callUserFunction, from parameter i (1-based)
RECURSIVE bindParams(_, _, _, _, _, _)
bindParams(func, argNodes, i, callerScope, funcScope, st) ==
    IF i > Len(func.params) THEN Done(st, Undefined)
    ELSE AndThen(evaluate(ArgumentAt(argNodes, i - 1), callerScope, st),
             LAMBDA val : bindParams(func, argNodes, i + 1, callerScope, funcScope,
                 Bound(st, func, i, ArgumentAt(argNodes, i - 1), callerScope, funcScope,
                       val, set(val.st, funcScope, func.params[i], val.val))))

\* a variant of returnedValue that hands the result of the body to the caller
\* whenever it is not a RETURN
returnedResult(result) == IF TypeOf(result) = "RETURN" THEN result.value ELSE result

\* what callUserFunction returns for the result of the body
returnedValue(result) == IF TypeOf(result) = "RETURN" THEN result.value ELSE Null

\* callUserFunction makes funcScope, the next Map of the heap
enterCall(func, st) ==
    Log([st EXCEPT !.heap = Append(@, newMap(func, st)), !.fuel = @ - 1, !.nextId = @ + 1],
        [ev |-> "call", id |-> st.nextId, frame |-> st.frame, loops |-> st.loops,
         func |-> func,
         scope |-> Len(st.heap) + 1, scope0 |-> newMap(func, st),
         closureNow |-> st.heap[func.closure]])

\* callUserFunction returns to the call that made it, in state st then
leaveCall(st, result) ==
    Done(Log([result.st EXCEPT !.frame = st.frame, !.loops = st.loops],
             [ev |-> "exit", id |-> st.nextId, frame |-> st.nextId,
              result |-> result.val, value |-> returnedValue(result.val),
              globals |-> result.st.heap[Globals]]),
         returnedValue(result.val))

callUserFunction(func, argNodes, callerScope, st) ==
    IF st.fuel = 0 THEN Exhausted(st)
    ELSE AndThen(bindParams(func, argNodes, 1, callerScope, Len(st.heap) + 1,
                        enterCall(func, st)),
             LAMBDA bound :
         AndThen(executeBlock(func.body, Len(st.heap) + 1,
                          [bound.st EXCEPT !.frame = st.nextId, !.loops = <<>>]),
             LAMBDA result : leaveCall(st, result)))

\* the VarDeclaration case of execute
execVarDeclaration(node, scope, st) ==
    AndThen(evaluate(node.value, scope, st),
        LAMBDA val : Done(set(val.st, scope, node.name, val.val), Undefined))

\* a variant of assignTarget that looks in the globals before the scope
assignTargetGlobalsFirst(st, scope, name) ==
    IF has(st, Globals, name) THEN Globals
    ELSE IF has(st, scope, name) THEN scope
    ELSE 0

\* a variant of assignTarget that writes a name bound nowhere to the globals
assignTargetImplicitGlobal(st, scope, name) ==
    IF has(st, scope, name) THEN scope ELSE Globals

\* the Map an AssignmentStatement writes to: the scope, else the globals, else none (0)
assignTarget(st, scope, name) ==
    IF has(st, scope, name) THEN scope
    ELSE IF has(st, Globals, name) THEN Globals
    ELSE 0

\* the state after the write of an AssignmentStatement to the Map target
assigned(st, target, name, val) == IF target = 0 THEN st ELSE set(st, target, name, val)

\* history: what an AssignmentStatement wrote, st being the state before the write
AssignEvent(st, written, scope, target, name, val) ==
    [ev |-> "assign", name |-> name, scope |-> scope, frame |-> st.frame,
     target |-> target, value |-> val,
     before |-> <<st.heap[scope], st.heap[Globals]>>,
     after |-> <<written.heap[scope], written.heap[Globals]>>]

\* the AssignmentStatement case of execute, once the value is evaluated
assign(name, scope, st, target, val) ==
    IF target = 0
    THEN Throw(Log(st, AssignEvent(st, assigned(st, target, name, val),
                                   scope, target, name, val)),
               "Undefined variable for assignment: " \o name)
    ELSE Done(Log(assigned(st, target, name, val),
                  AssignEvent(st, assigned(st, target, name, val),
                              scope, target, name, val)),
              Undefined)

\* the AssignmentStatement case of execute
execAssignment(node, scope, st) ==
    AndThen(evaluate(node.value, scope, st),
        LAMBDA newVal : assign(node.name, scope, newVal.st,
                               assignTarget(newVal.st, scope, node.name), newVal.val))

\* the function value a FunctionDeclaration builds
functionValue(node, scope, id) ==
    [jt |-> "object", type |-> "FUNCTION", params |-> node.params,
     body |-> node.body, closure |-> scope, id |-> id]

\* the FunctionDeclaration case of execute
execFunctionDeclaration(node, scope, st) ==
    Done(Log(set(Made(st), scope, node.name, functionValue(node, scope, NextObject(st))),
             [ev |-> "decl", name |-> node.name,
              func |-> functionValue(node, scope, NextObject(st)),
              frame |-> st.frame, snapshot |-> st.heap[scope]]),
         Undefined)

\* history: an IfStatement whose test came to cond goes to a branch
IfEvent(st, node, cond, branch) ==
    Log(st, [ev |-> "if", frame |-> st.frame, test |-> cond,
             alternate |-> Truthy(node.alternate), branch |-> branch])

\* the IfStatement case of execute
execIf(node, scope, st) ==
    AndThen(evaluate(node.test, scope, st),
        LAMBDA cond :
            IF ConditionHolds(cond.val)
            THEN executeBlock(node.consequent, scope,
                              IfEvent(cond.st, node, cond.val, "consequent"))
            ELSE IF Truthy(node.alternate)
            THEN executeBlock(node.alternate.elems, scope,
                              IfEvent(cond.st, node, cond.val, "alternate"))
            ELSE Done(IfEvent(cond.st, node, cond.val, "none"), Undefined))

\* how the body of a loop ended
HowEnded(res) == IF IsControl(res) THEN res.type ELSE "NORMAL"

LoopEvent(st, ev, id) == [ev |-> ev, loop |-> id, frame |-> st.frame]

\* history: the body of loop id has ended with result res
bodyEnded(st, id, res) ==
    Log(st, [ev |-> "bodyend", loop |-> id, frame |-> st.frame, how |-> HowEnded(res)])

\* the loop is not among the open loops any more
closeLoop(st) == [st EXCEPT !.loops = SubSeq(@, 1, Len(@) - 1)]

\* the loop statement is over, by its test or by a break
leaveLoop(st, id, by) ==
    Done(closeLoop(Log(st, [ev |-> "loopend", loop |-> id, frame |-> st.frame,
                            by |-> by])),
         Undefined)

RECURSIVE whileLoop(_, _, _, _)
\* a variant of whileAfterBody in which a BREAK is handed on like a RETURN
whileAfterBodyBreakOutward(node, scope, id, ended, res) ==
    CASE TypeOf(res) \in {"RETURN", "BREAK"} -> Done(closeLoop(ended), res)
      [] OTHER -> whileLoop(node, scope, ended, id)

\* the if (res) of the WhileStatement case, ended being the state after the body
whileAfterBody(node, scope, id, ended, res) ==
    CASE TypeOf(res) = "RETURN" -> Done(closeLoop(ended), res)
      [] TypeOf(res) = "BREAK" -> leaveLoop(ended, id, "break")
      [] OTHER -> whileLoop(node, scope, ended, id)

\* history: the test of the while loop id came to c, and the loop goes on or not
WhileEvent(st, id, c, continues) ==
    Log(st, [ev |-> "while", of |-> id, frame |-> st.frame, test |-> c,
             continues |-> continues])

\* the while (true) of the WhileStatement case, from the top of an iteration
whileLoop(node, scope, st, id) ==
    AndThen(evaluate(node.test, scope, Log(st, LoopEvent(st, "test", id))),
        LAMBDA c :
            IF LoopStops(c.val) THEN leaveLoop(WhileEvent(c.st, id, c.val, FALSE), id, "test")
            ELSE IF c.st.fuel = 0 THEN Exhausted(WhileEvent(c.st, id, c.val, TRUE))
            ELSE AndThen(executeBlock(node.body, scope,
                                      [WhileEvent(c.st, id, c.val, TRUE) EXCEPT !.fuel = @ - 1]),
                     LAMBDA res : whileAfterBody(node, scope, id,
                                      bodyEnded(res.st, id, res.val), res.val)))

RECURSIVE forLoop(_, _, _, _)
\* a variant of forAfterBody in which a RETURN only ends the loop
forAfterBodyReturnEndsLoop(node, scope, id, ended, res) ==
    CASE TypeOf(res) \in {"RETURN", "BREAK"} -> leaveLoop(ended, id, "break")
      [] OTHER -> AndThen(execute(node.update, scope, Log(ended, LoopEvent(ended, "update", id))),
                      LAMBDA u : forLoop(node, scope, u.st, id))

\* a variant of forAfterBody in which a CONTINUE goes to the test without the update
forAfterBodyContinueSkipsUpdate(node, scope, id, ended, res) ==
    CASE TypeOf(res) = "RETURN" -> Done(closeLoop(ended), res)
      [] TypeOf(res) = "BREAK" -> leaveLoop(ended, id, "break")
      [] TypeOf(res) = "CONTINUE" -> forLoop(node, scope, ended, id)
      [] OTHER -> AndThen(execute(node.update, scope, Log(ended, LoopEvent(ended, "update", id))),
                      LAMBDA u : forLoop(node, scope, u.st, id))

\* the if (res) of the ForStatement case and the update after it
forAfterBody(node, scope, id, ended, res) ==
    CASE TypeOf(res) = "RETURN" -> Done(closeLoop(ended), res)
      [] TypeOf(res) = "BREAK" -> leaveLoop(ended, id, "break")
      [] OTHER -> AndThen(execute(node.update, scope, Log(ended, LoopEvent(ended, "update", id))),
                      LAMBDA u : forLoop(node, scope, u.st, id))

\* the while (true) of the ForStatement case, from the top of an iteration
forLoop(node, scope, st, id) ==
    AndThen(evaluate(node.test, scope, Log(st, LoopEvent(st, "test", id))),
        LAMBDA c :
            IF LoopStops(c.val) THEN leaveLoop(c.st, id, "test")
            ELSE IF c.st.fuel = 0 THEN Exhausted(c.st)
            ELSE AndThen(executeBlock(node.body, scope, [c.st EXCEPT !.fuel = @ - 1]),
                     LAMBDA res : forAfterBody(node, scope, id,
                                      bodyEnded(res.st, id, res.val), res.val)))

\* a loop statement begins: it gets an identity and joins the open loops
enterLoop(st) == [st EXCEPT !.loops = Append(@, st.nextId), !.nextId = @ + 1]

\* the WhileStatement case of execute
execWhile(node, scope, st) == whileLoop(node, scope, enterLoop(st), st.nextId)

\* the ForStatement case of execute
execFor(node, scope, st) ==
    AndThen(execute(node.init, scope, Log(enterLoop(st), LoopEvent(st, "init", st.nextId))),
        LAMBDA init : forLoop(node, scope, init.st, st.nextId))

\* the ExpressionStatement case of execute
execExpression(node, scope, st) ==
    AndThen(evaluate(node.expression, scope, st), LAMBDA v : Done(v.st, Undefined))

\* the ReturnStatement case of execute
execReturn(node, scope, st) ==
    AndThen(evaluate(node.value, scope, st),
        LAMBDA v : Done(Log(v.st, [ev |-> "return", frame |-> st.frame, loops |-> st.loops,
                                   value |-> v.val]),
                        [jt |-> "object", type |-> "RETURN", value |-> v.val]))

\* history: a statement is about to be executed
StatementEvent(node, scope, st) ==
    [ev |-> "stmt", type |-> node.type, frame |-> st.frame, loop |-> CurrentLoop(st),
     loops |-> st.loops, scope |-> scope,
     name |-> IF "name" \in DOMAIN node THEN node.name ELSE ""]

dispatch(node, scope, st) ==
    CASE node.type = "BreakStatement" -> Done(st, Obj("BREAK"))
      [] node.type = "ContinueStatement" -> Done(st, Obj("CONTINUE"))
      [] node.type = "VarDeclaration" -> execVarDeclaration(node, scope, st)
      [] node.type = "AssignmentStatement" -> execAssignment(node, scope, st)
      [] node.type = "FunctionDeclaration" -> execFunctionDeclaration(node, scope, st)
      [] node.type = "IfStatement" -> execIf(node, scope, st)
      [] node.type = "WhileStatement" -> execWhile(node, scope, st)
      [] node.type = "ForStatement" -> execFor(node, scope, st)
      [] node.type = "ExpressionStatement" -> execExpression(node, scope, st)
      [] node.type = "ReturnStatement" -> execReturn(node, scope, st)
      [] OTHER -> Done(st, Undefined)

execute(node, scope, st) == dispatch(node, scope, Log(st, StatementEvent(node, scope, st)))

\* t.value: NEWLINE, INDENT and DEDENT tokens have none
TokenValue(t) == IF "value" \in DOMAIN t THEN Str(t.value) ELSE Undefined

\* t.value as join and += read it: NEWLINE, INDENT and DEDENT tokens have none
TokenText(t) == IF "value" \in DOMAIN t THEN t.value ELSE ""

\* tokens.map(t => t.value).join(sep)
RECURSIVE joinTokens(_, _, _)
joinTokens(toks, i, sep) ==
    IF i > Len(toks) THEN ""
    ELSE (IF i > 1 THEN sep ELSE "") \o TokenText(toks[i]) \o joinTokens(toks, i + 1, sep)

Min(S) == CHOOSE x \in S : \A y \in S : x <= y

\* s.replace(/pat/g, rep) for a literal pat, from 0-based position p
RECURSIVE replaceAll(_, _, _, _)
replaceAll(s, p, pat, rep) ==
    LET hits == {i \in p .. Len(s) - Len(pat) : SubSeq(s, i + 1, i + Len(pat)) = pat}
    IN  IF hits = {} THEN SubSeq(s, p + 1, Len(s))
        ELSE SubSeq(s, p + 1, Min(hits)) \o rep
             \o replaceAll(s, Min(hits) + Len(pat), pat, rep)

\* the first position at or after p that holds no whitespace
SkipWhitespace(s, p) == Min({i \in p .. Len(s) : ~IsWhitespace(CharAt(s, i))})

\* s.replace(/\s+([,!?.])/g, '$1'), from 0-based position p
RECURSIVE closeUpPunctuation(_, _)
closeUpPunctuation(s, p) ==
    LET hits == {i \in p .. Len(s) - 1 :
                    /\ IsWhitespace(CharAt(s, i))
                    /\ CharAt(s, SkipWhitespace(s, i)) \in {",", "!", "?", "."}}
    IN  IF hits = {} THEN SubSeq(s, p + 1, Len(s))
        ELSE SubSeq(s, p + 1, Min(hits))
             \o closeUpPunctuation(s, SkipWhitespace(s, Min(hits)))

\* s.trim()
trim(s) ==
    LET inked == {i \in 0 .. Len(s) - 1 : ~IsWhitespace(CharAt(s, i))}
    IN  IF inked = {} THEN ""
        ELSE SubSeq(s, Min(inked) + 1, (CHOOSE x \in inked : \A y \in inked : x >= y) + 1)

\* raw.toLowerCase() === 'true'
IsTrueText(raw) ==
    /\ Len(raw) = 4
    /\ CharAt(raw, 0) \in {"t", "T"}
    /\ CharAt(raw, 1) \in {"r", "R"}
    /\ CharAt(raw, 2) \in {"u", "U"}
    /\ CharAt(raw, 3) \in {"e", "E"}

\* the catch of evaluateSegment: the fallback for simple values
segmentFallback(toks, scope, st) ==
    IF Len(toks) = 1 /\ toks[1].type = "NUMBER" THEN Valued(st, parseInt(toks[1].value))
    ELSE IF Len(toks) = 1 /\ toks[1].type = "IDENTIFIER"
    THEN Done(st, Lookup(st, scope, toks[1].value).val)
    ELSE IF "value" \in DOMAIN toks[1] THEN Done(st, Str(toks[1].value))
    ELSE Done(st, Undefined)

\* the catch of evaluateSegment, v being what the evaluation yielded from the
\* state st: the catch runs in the call and in the loops the try was entered in
caughtOr(v, toks, scope, st) ==
    IF v.thrown /\ ~v.st.stuck
    THEN segmentFallback(toks, scope,
             Log([v.st EXCEPT !.frame = st.frame, !.loops = st.loops],
                 [ev |-> "catch", message |-> v.message, frame |-> st.frame]))
    ELSE v

\* the try of evaluateSegment, p being what p.parseExpression() yielded
evaluateParsed(p, toks, scope, st) ==
    IF ~p.ok THEN segmentFallback(toks, scope, st)
    ELSE caughtOr(evaluate(p.node, scope, st), toks, scope, st)

evaluateSegment(toks, scope, st) ==
    IF Len(toks) = 0 THEN Done(st, Null)
    ELSE evaluateParsed(parseExpression(toks, 0), toks, scope, st)

\* history: an f[...] or fobj[...] evaluated to r; parsed tells whether the body
\* tokens made an expression for the parser
FormulaEvent(node, r) ==
    [ev |-> "formula", callee |-> node.callee, tokens |-> node.bodyTokens,
     frame |-> r.st.frame,
     parsed |-> IF Len(node.bodyTokens) = 0 THEN FALSE
                ELSE parseExpression(node.bodyTokens, 0).ok,
     value |-> r.val]

formulaOutcome(node, r) ==
    IF r.thrown THEN r ELSE Done(Log(r.st, FormulaEvent(node, r)), r.val)

\* the f and fobj case of handleTypeConstruction
formula(node, scope, st) ==
    formulaOutcome(node, evaluateSegment(node.bodyTokens, scope, st))

\* the nesting of brackets before token i
BalanceBefore(toks, i) ==
    Cardinality({j \in 1 .. i - 1 : toks[j].type = "LBRACKET"})
    - Cardinality({j \in 1 .. i - 1 : toks[j].type = "RBRACKET"})

\* the commas that separate segments: t.value === ',' && balance === 0
IsSeparator(toks, i) == TokenText(toks[i]) = "," /\ BalanceBefore(toks, i) = 0

\* the segments between the separators, from token i (1-based), the last one included
RECURSIVE segmentsFrom(_, _)
segmentsFrom(toks, i) ==
    LET seps == {j \in i .. Len(toks) : IsSeparator(toks, j)}
    IN  IF seps = {} THEN <<SubSeq(toks, i, Len(toks))>>
        ELSE <<SubSeq(toks, i, Min(seps) - 1)>> \o segmentsFrom(toks, Min(seps) + 1)

\* type a: the non-empty segments evaluated in order
RECURSIVE arrayElements(_, _, _, _, _)
arrayElements(segs, i, scope, st, elements) ==
    IF i > Len(segs) THEN Done(Made(st), ArrayOf(elements, NextObject(st)))
    ELSE IF Len(segs[i]) = 0 THEN arrayElements(segs, i + 1, scope, st, elements)
    ELSE AndThen(evaluateSegment(segs[i], scope, st),
             LAMBDA v : arrayElements(segs, i + 1, scope, v.st, Append(elements, v.val)))

\* properties.set(key, val)
mapSet(m, key, val) ==
    MapOf(IF key \in DOMAIN m.vals THEN m.keys ELSE Append(m.keys, key),
          (key :> val) @@ m.vals)

\* seg.findIndex(t => t.value === '='), 1-based; 0 when there is none
EqualsIndex(seg) ==
    LET at == {j \in 1 .. Len(seg) : TokenText(seg[j]) = "="}
    IN  IF at = {} THEN 0 ELSE Min(at)

\* type o and obj: the prop segments in order
RECURSIVE objectProperties(_, _, _, _, _)
objectProperties(segs, i, scope, st, properties) ==
    IF i > Len(segs)
    THEN Done(Made(st), [jt |-> "object", type |-> "OBJECT", properties |-> properties,
                         id |-> NextObject(st)])
    ELSE IF Len(segs[i]) = 0 \/ TokenText(segs[i][1]) # "prop"
    THEN objectProperties(segs, i + 1, scope, st, properties)
    ELSE IF Len(segs[i]) < 3
    THEN Throw(st, "Cannot read properties of undefined (reading 'value')")
    ELSE AndThen(evaluateSegment(SubSeq(segs[i], EqualsIndex(segs[i]) + 1, Len(segs[i])),
                             scope, st),
             LAMBDA val : objectProperties(segs, i + 1, scope, val.st,
                              mapSet(properties, TokenValue(segs[i][3]), val.val)))

\* the token that closes the island opened before token i (1-based),
\* Len(toks) + 1 when none does
IslandEnd(toks, i) ==
    LET opens(j) == Cardinality({k \in i .. j - 1 : TokenText(toks[k]) = "{"})
        closes(j) == Cardinality({k \in i .. j - 1 : TokenText(toks[k]) = "}"})
        ends == {j \in i .. Len(toks) : TokenText(toks[j]) = "}" /\ opens(j) = closes(j)}
    IN  IF ends = {} THEN Len(toks) + 1 ELSE Min(ends)

\* type fint and fstr: the tokens with each island replaced by its formatted value
RECURSIVE processTokens(_, _, _, _, _)
processTokens(toks, i, scope, st, processedTokens) ==
    IF i > Len(toks) THEN Done(st, processedTokens)
    ELSE IF TokenText(toks[i]) = "{"
    THEN AndThen(evaluateSegment(SubSeq(toks, i + 1, IslandEnd(toks, i + 1) - 1), scope, st),
             LAMBDA val : processTokens(toks, IslandEnd(toks, i + 1) + 1, scope, val.st,
                              Append(processedTokens,
                                     [type |-> "IDENTIFIER",
                                      value |-> formatOutput(val.val)])))
    ELSE processTokens(toks, i + 1, scope, st, Append(processedTokens, toks[i]))

\* parseInt(s) with no radix: 0x and 0X announce hexadecimal digits
parseIntAuto(s) ==
    LET sign == SpaceRun(s, 0)
        from == sign + (IF CharAt(s, sign) \in {"-", "+"} THEN 1 ELSE 0)
        hex == CharAt(s, from) = "0" /\ CharAt(s, from + 1) \in {"x", "X"}
    IN  IF ~hex THEN parseInt(s)
        ELSE IF RadixRun(s, from + 2, 16) = 0 THEN NaN
        ELSE IF CharAt(s, sign) # "-" \/ RadixNumber(s, from + 2, 16) = Beyond
        THEN RadixNumber(s, from + 2, 16)
        ELSE IF RadixNumber(s, from + 2, 16) = Num(0) THEN Beyond
        ELSE Negated(RadixNumber(s, from + 2, 16))

\* the fint and fstr case of handleTypeConstruction
formatted(type, toks, scope, st) ==
    AndThen(processTokens(toks, 1, scope, st, <<>>),
        LAMBDA processed :
            IF type = "fstr"
            THEN Done(processed.st,
                      Primitive(Str(trim(closeUpPunctuation(
                          joinTokens(processed.val, 1, " "), 0)))))
            ELSE Boxed(processed.st, parseIntAuto(joinTokens(processed.val, 1, ""))))

\* the var case of handleTypeConstruction
boxedVariable(toks, scope, st) ==
    IF Len(toks) = 0 THEN Throw(st, "Cannot read properties of undefined (reading 'value')")
    ELSE IF "value" \in DOMAIN toks[1] /\ Lookup(st, scope, toks[1].value).bound
    THEN Done(st, Lookup(st, scope, toks[1].value).val)
    ELSE Throw(st, "Undefined variable: "
               \o (IF "value" \in DOMAIN toks[1] THEN toks[1].value ELSE "undefined"))

handleTypeConstruction(node, scope, st) ==
    CASE node.callee = "int" ->
             Boxed(st, parseInt(joinTokens(node.bodyTokens, 1, "")))
      [] node.callee = "str" ->
             Done(st, Primitive(Str(trim(
                 replaceAll(replaceAll(joinTokens(node.bodyTokens, 1, " "), 0, " , ", ","),
                            0, " .", ".")))))
      [] node.callee = "bool" ->
             Done(st, Primitive(Bool(IsTrueText(joinTokens(node.bodyTokens, 1, "")))))
      [] node.callee = "var" -> boxedVariable(node.bodyTokens, scope, st)
      [] node.callee \in {"f", "fobj"} -> formula(node, scope, st)
      [] node.callee = "a" ->
             arrayElements(segmentsFrom(node.bodyTokens, 1), 1, scope, st, <<>>)
      [] node.callee \in {"o", "obj"} ->
             objectProperties(segmentsFrom(node.bodyTokens, 1), 1, scope, st,
                              MapOf(<<>>, <<>>))
      [] node.callee \in {"fint", "fstr"} ->
             formatted(node.callee, node.bodyTokens, scope, st)
      [] OTHER -> Done(st, [jt |-> "object", type |-> "UNKNOWN",
                            value |-> TokenArray(node.bodyTokens)])

\* the state a run starts from: new Interpreter(outputCallback)
NewInterpreter ==
    [heap |-> << <<>> >>, output |-> <<>>, evalResult |-> Null, trace |-> <<>>,
     fuel |-> MaxFuel, nextId |-> 1, made |-> 0, draws |-> <<>>, drawn |-> 0,
     frame |-> 0, loops |-> <<>>,
     stuck |-> FALSE]

(***************************************************************************)
(* The pipeline: source text -> Lexer.tokenize -> Parser.parse ->          *)
(* Interpreter.run.                                                        *)
(***************************************************************************)
LexerState == [input |-> input, pos |-> pos, tokens |-> tokens,
               currentIndent |-> currentIndent]

SetLexer(L) ==
    /\ input' = L.input
    /\ pos' = L.pos
    /\ tokens' = L.tokens
    /\ currentIndent' = L.currentIndent

\* one iteration of the main loop of Lexer.tokenize
LexStep ==
    /\ phase = "lex"
    /\ pos < Len(input)
    /\ SetLexer(tokenizeStep(LexerState))
    /\ UNCHANGED <<phase, ast, runVars>>

\* one iteration of the closing loop of Lexer.tokenize
LexClose ==
    /\ phase = "lex"
    /\ pos >= Len(input)
    /\ currentIndent > 0
    /\ SetLexer(tokenizeClose(LexerState))
    /\ UNCHANGED <<phase, ast, runVars>>

\* Lexer.tokenize returns this.tokens
LexReturn ==
    /\ phase = "lex"
    /\ pos >= Len(input)
    /\ currentIndent <= 0
    /\ phase' = "lexed"
    /\ UNCHANGED <<lexVars, ast, runVars>>

\* what the pipeline keeps of the outcome r of Parser.parse
parseOutcome(r) ==
    IF r.ok THEN ast' = r.node /\ phase' = "parsed"
    ELSE ast' = r.error /\ phase' = "syntax_error"

\* every number the program writes is one the model holds: see NumberValue
LiteralsKnown(toks) ==
    \A i \in 1 .. Len(toks) : toks[i].type = "NUMBER" => NumberOf(toks[i].value) # Beyond

\* new Parser(tokens).parse()
Parse ==
    /\ phase = "lexed"
    /\ IF LiteralsKnown(tokens) THEN parseOutcome(parse(tokens))
       ELSE phase' = "bound" /\ UNCHANGED ast
    /\ UNCHANGED <<lexVars, runVars>>

\* the interpreter's state, gathered from the variables and scattered back;
\* draws is what the calls of Math.random() of the statement give, in order
InterpreterState(draws) ==
    [heap |-> heap, output |-> output, evalResult |-> evalResult, trace |-> trace,
     fuel |-> fuel, nextId |-> nextId, made |-> made, draws |-> draws, drawn |-> 0,
     frame |-> 0, loops |-> <<>>,
     stuck |-> FALSE]

SetInterpreter(st) ==
    /\ heap' = st.heap
    /\ output' = st.output
    /\ evalResult' = st.evalResult
    /\ trace' = st.trace
    /\ fuel' = st.fuel
    /\ nextId' = st.nextId
    /\ made' = st.made

\* the catch of Interpreter.run: what it hands to the output callback
reportError(message) == <<"Error: " \o message, TRUE>>

\* whether the catch of Interpreter.run throws the error again
Rethrows == FALSE

\* what Interpreter.run does with the outcome r of a statement of ast.body: it
\* returned normally, or with a control result that ends executeBlock, or it threw
runOutcome(r) ==
    IF r.thrown /\ r.st.stuck
    THEN /\ SetInterpreter(r.st)
         /\ phase' = "bound"
         /\ UNCHANGED <<ip, caught, escaped>>
    ELSE IF r.thrown
    THEN /\ SetInterpreter([r.st EXCEPT !.output = Append(@, reportError(r.message))])
         /\ caught' = <<r.message>>
         /\ escaped' = Rethrows
         /\ phase' = "done"
         /\ ip' = ip
    ELSE /\ SetInterpreter(r.st)
         /\ phase' = IF IsControl(r.val) THEN "done" ELSE "parsed"
         /\ ip' = ip + 1
         /\ UNCHANGED <<caught, escaped>>

\* what the calls of Math.random() of one statement may give, in order and in
\* units of 1 / RandomSteps: every call draws anew.  A program that does not
\* name random makes no call
Draws(toks) ==
    IF \E i \in 1 .. Len(toks) : toks[i].type = "IDENTIFIER" /\ toks[i].value = "random"
    THEN [1 .. MaxDraws -> 0 .. RandomSteps - 1]
    ELSE {<<>>}

\* Interpreter.run, one statement of ast.body per step
RunStep ==
    /\ phase = "parsed"
    /\ ip < Len(ast.body)
    /\ \E draws \in Draws(tokens) :
           runOutcome(execute(ast.body[ip + 1], Globals, InterpreterState(draws)))
    /\ UNCHANGED <<lexVars, ast>>

\* Interpreter.run returns: every statement of ast.body has been executed
RunReturn ==
    /\ phase = "parsed"
    /\ ip = Len(ast.body)
    /\ phase' = "done"
    /\ UNCHANGED <<lexVars, ast, runVars>>

(***************************************************************************)
(* The programs the model runs, as source text.                            *)
(***************************************************************************)
\* a global re-assigned between a function's declaration and its call
ProgClosure ==
    "var [g] = 1\nfunc [f()]\n    return g\ng = 2\nprint(f())"

\* a function that declares a local x and assigns to it, beside a global x
ProgLocal ==
    "var [x] = 1\nfunc [f()]\n    var [x] = 5\n    x = 7\n    return x\nprint(f(), x)"

\* return inside a for inside a while
ProgReturnInLoops ==
    "func [f(n)]\n    var [i] = 0\n    while [i < n]\n        for [var [j] = 0, j < n, j = j + 1]\n            if [j == 1]\n                return i + j\n            print(j)\n        i = i + 1\n    print(99)\n    return 0\nprint(f(3))"

\* break in the inner of two while loops
ProgBreakInner ==
    "var [i] = 0\nwhile [i < 2]\n    var [j] = 0\n    while [j < 3]\n        j = j + 1\n        if [j == 2]\n            break\n        print(i, j)\n    i = i + 1\n    print(i)"

\* continue and break in a while inside a for
ProgNested ==
    "for [var [i] = 0, i < 2, i = i + 1]\n    var [j] = 0\n    while [j < 4]\n        j = j + 1\n        if [j == 1]\n            continue\n        if [j == 3]\n            break\n        print(i, j)\n    print(i)"

\* continue in the inner of two for loops
ProgContinueInner ==
    "for [var [i] = 0, i < 2, i = i + 1]\n    for [var [j] = 0, j < 3, j = j + 1]\n        if [j == 1]\n            continue\n        print(i, j)\n    print(i)"

\* a function whose body breaks outside any loop, called inside a loop
ProgStrayBreak ==
    "func [f()]\n    break\n    print(1)\nvar [i] = 0\nwhile [i < 2]\n    i = i + 1\n    var [r] = f()\n    print(i, r)"

\* a function whose body continues outside any loop, called inside a for
ProgStrayContinue ==
    "func [g()]\n    if [1]\n        continue\n    return 5\nfor [var [i] = 0, i < 2, i = i + 1]\n    var [r] = g()\n    print(r)"

\* a for loop whose body continues, breaks and falls through
ProgForAll ==
    "func [h()]\n    for [var [k] = 0, k < 5, k = k + 1]\n        if [k == 1]\n            continue\n        if [k == 3]\n            break\n        print(k)\n    return k\nprint(h())"

\* an assignment to a name bound nowhere, at top level
ProgAssignUnbound ==
    "var [x] = 1\ny = 3\nprint(x)"

\* a call of a name bound to no function
ProgUnknownFunction ==
    "print(1)\nprint(nope(1))\nprint(2)"

\* var[q] with q bound nowhere
ProgUnboundBox ==
    "var [z] = var[q]\nprint(z)"

\* an unknown function called inside a[...]
ProgArrayError ==
    "var [a1] = a[1, foo(2), 3]\nprint(a1)\nprint(5)"

\* a failing member access inside an island of fstr[...]
ProgIslandError ==
    "print(fstr[x {y.z} !])\nprint(5)"

\* an unbound var[...] as the value of a property of o[...]
ProgObjectError ==
    "var [o1] = o[prop [k] = var[nope]]\nprint(o1)"

\* an unknown function called inside f[...]
ProgFormulaError ==
    "print(f[1 + nope(2)])\nprint(5)"

\* an assignment to a name bound nowhere, inside a function
ProgAssignUnboundLocal ==
    "var [x] = 1\nfunc [f()]\n    var [t] = 2\n    q = t\n    return 1\nprint(f())\nprint(x)"

\* an inner function returned by its maker and called at top level
ProgEscapedClosure ==
    "func [outer()]\n    func [inner()]\n        x = 5\n        return 1\n    return inner\nvar [g] = outer()\nvar [x] = 1\ny = g()"

\* a block indented by eight columns at once
ProgIndentEight ==
    "if [1]\n        print(1)\nprint(2)"

\* a block indented by six columns
ProgIndentSix ==
    "if [1]\n      print(1)\nprint(2)"

\* a block indented by two columns
ProgIndentTwo ==
    "if [1]\n  print(1)\nprint(2)"

\* a nested block indented with tabs, a comment and a blank line, open at the end
ProgIndentTab ==
    "if [1]\n\tif [2]\n\t\tprint(1)\n\n# done\n\t\tprint(2)"

\* a statement the parser rejects
ProgSyntaxError ==
    "var [x] = \nprint(1)"

\* a loop that never ends
ProgEndless ==
    "var [n] = 0\nwhile [1]\n    n = n + 1"

\* a function whose parameter is a plain identifier, reading a global
ProgPlainParam ==
    "var [g] = int[10]\nfunc [add(a)]\n    return a + g\nprint(add(int[5]))"

\* the same function with its parameter written as a var[name] box
ProgBoxedParam ==
    "var [g] = int[10]\nfunc [add(var[a])]\n    return a + g\nprint(add(int[5]))"

\* eval with and without an argument, at top level and in a function
ProgEval ==
    "print(eval().result)\neval(int[3])\nprint(eval().result)\nprint(eval().result)\nprint(eval(4).result, eval().result)\nfunc [k()]\n    return eval(eval().result + 1)\nvar [c] = k()\nprint(c.result, eval().result)"

\* random with two integers, bare and boxed, and with equal bounds
ProgRandomRange ==
    "print(random(2, 4))\nvar [r] = random(int[0], int[1])\nprint(r, random(5, 5))"

\* random with one argument, a non-empty array
ProgRandomArray ==
    "var [xs] = a[7, 8, 9]\nvar [p] = random(xs)\nprint(p)"

\* member accesses on an object: a key of its properties and names that are not
ProgObjectMembers ==
    "var [o1] = o[prop [k] = 1]\nprint(o1.k)\nprint(o1.type)\nprint(o1.result)\nprint(o1.nope)"

\* member accesses on arrays: val, e<k> and <k>, in and out of range, nested
ProgArrayMembers ==
    "var [xs] = a[7, 8, 9]\nprint(xs.val)\nprint(xs.e0, xs.2)\nprint(xs.e3, xs.5)\nvar [ys] = a[xs, 1]\nprint(ys.e0.e1, ys.val.1)"

\* the elements of an array whose first element is what a call of print returns
ProgHoleIndex ==
    "var [hs] = a[print(1), 2]\nprint(hs.val.e1)\nprint(hs.e0, hs.0, hs.e1)\nprint(hs.e2, hs.5)"

\* a chain of two arithmetic operators without parentheses, printed
ArithmeticChain(op1, op2) == "print(8 " \o op1 \o " 4 " \o op2 \o " 2)"

\* two arithmetic operations compared without parentheses, printed
ComparisonChain(op1, cmp, op2) ==
    "print(8 " \o op1 \o " 4 " \o cmp \o " 2 " \o op2 \o " 1)"

Chains ==
    {ArithmeticChain(op1, op2) : op1 \in AdditiveOps, op2 \in AdditiveOps}
    \cup {ComparisonChain(op1, cmp, op2) :
              op1 \in AdditiveOps, cmp \in ComparisonOps, op2 \in AdditiveOps}

\* the plain and the template integer constructor given the same literal
IntPair(n) ==
    "var [a] = int[" \o n \o "]\nvar [b] = fint[{" \o n \o "}]\nprint(a, b)"

\* the plain and the template string constructor given the same bare word
StrPair(w) ==
    "var [a] = str[" \o w \o "]\nvar [b] = fstr[" \o w \o "]\nprint(a, b)"

\* integer literals: zero, small ones, one with leading zeros, 10^20 and 10^21
IntLiterals == {"0", "7", "42", "007", "100000000000000000000", "1000000000000000000000"}

\* words bound in no scope
BareWords == {"hello", "w"}

ConstructorPairs ==
    {IntPair(n) : n \in IntLiterals} \cup {StrPair(w) : w \in BareWords}

\* arithmetic chains that read differently under the usual precedence
ProgPrecedence ==
    "print(1 + 2 * 3)\nprint(8 - 2 - 1)"

\* identifiers read in a function: a local over a global, a global declared after the
\* function, a name bound nowhere
ProgIdentifiers ==
    "var [x] = 1\nfunc [f()]\n    var [x] = 5\n    print(x, late, nowhere)\nvar [late] = 3\nf()\nprint(x, nowhere)"

\* a member access whose property is an expression in braces
ProgDynamicMember ==
    "var [o1] = o[prop [k] = 1]\nvar [key] = str[k]\nprint(o1.{key})"

\* a name read in the scope over a different global, a global declared after
\* the closure of the reader was made, a name bound nowhere
ProgLateGlobal ==
    "var [x] = 1\nfunc [outer()]\n    var [x] = 5\n    func [inner()]\n        return x + late\n    return inner\nvar [g] = outer()\nvar [late] = 7\nprint(g(), x, nowhere)"

\* a call whose arguments read the caller's x over the x of the closure, and a
\* call at top level whose first argument calls a function that assigns x
ProgArgumentAssigns ==
    "func [outer()]\n    func [inner()]\n        x = 7\n        return 1\n    return inner\nvar [g] = outer()\nvar [x] = 1\nfunc [show(x, q)]\n    return x + q\nfunc [caller()]\n    var [x] = 5\n    var [r] = show(x, x + 1)\n    return r + x\nprint(caller(), x)\nprint(show(g(), x), x)"

\* a function called from another function whose local x differs from the global x of the callee's closure
ProgCallerScope ==
    "var [x] = 1\nfunc [show(x, q)]\n    return x + q\nfunc [caller()]\n    var [x] = 5\n    var [r] = show(x, x + 1)\n    return r + x\nprint(caller(), x)"

\* print calls with no, one and several arguments, inside a call made by an argument and nested
ProgPrintOrder ==
    "func [f(n)]\n    print(n, inside)\n    return n + 1\nprint(a, f(1), b)\nprint()\nprint(print(7), f(2))"

\* a block with an empty line, lines of spaces and of tabs, and comment lines at several widths
ProgBlankLines ==
    "if [1]\n    print(1)\n\n  \n\t\t\n        # note\n# note\n    print(2)\nprint(3)"

\* the same block in a text whose lines end with a carriage return and a line break
ProgBlankLineCR ==
    "if [1]\r\n    print(1)\r\n\r\n    print(2)\r\nprint(3)"

\* f[...] and fobj[...] with bodies that are no expression, of one and of several tokens, and with one that is
ProgFormulaFallback ==
    "print(f[* 2 3])\nprint(fobj[) x y])\nprint(f[)])\nprint(f[1 + 2])"

\* if and while on tests of every kind: bare and boxed numbers, comparisons, a name, the null of a call, with and without else
ProgConditions ==
    "func [nothing()]\n    var [z] = 1\nvar [n] = 2\nwhile [n]\n    print(n)\n    n = n - 1\nif [n]\n    print(a)\nelse\n    print(b)\nif [int[0]]\n    print(c)\nif [int[3]]\n    print(d)\nelse\n    print(e)\nif [1 == 2]\n    print(g)\nelse\n    print(h)\nif [nothing()]\n    print(i)\nelse\n    print(j)\nif [word]\n    print(k)\nwhile [n < 1]\n    n = n + 1\nwhile [int[0]]\n    print(m)"

\* tests that come to the empty string and to NaN, bare and inside a primitive
ProgEmptyTest ==
    "var [s] = str[]\nif [s]\n    print(a)\nelse\n    print(b)\nif [s.value]\n    print(c)\nelse\n    print(d)\nif [int[x]]\n    print(e)\nelse\n    print(g)\nif [0 / 0]\n    print(h)\nelse\n    print(i)\nwhile [s.value]\n    print(j)"

\* functions declared at top level that assign to a global name, declare variables and a function, loop and call one another
ProgGlobalFrame ==
    "var [g] = 1\nfunc [inner()]\n    g = g + 10\n    return g\nfunc [outer()]\n    var [t] = 0\n    func [helper()]\n        return 1\n    while [t < 2]\n        g = g + 1\n        t = t + 1\n    var [fresh] = inner()\n    return g + fresh + helper()\nprint(outer(), g)"

\* characters the lexer does not know, a comment and a number with a dot, in a text that ends two blocks deep at width 6
ProgUnknownChars ==
    "if [1] ;\n    print(1 @) # c\n      print(2.5 $)"

\* a vertical tab and a no-break space between the tokens of an expression
ProgSpaces ==
    "print(1+\f1)"

\* quotients that are no integers, a negative divisor, a division by zero, literals with a fraction
ProgFractions ==
    "var [m] = 0 - 3\nprint(1/2)\nvar [h] = 7/2\nprint(h + 1)\nprint(6 / m, m / 0)\nprint(2.50, 00.5, 0.10)\nprint(1/2 == 0)"

\* a quotient with no finite decimal expansion
ProgThird ==
    "print(1)\nprint(1/3)\nprint(2)"

\* a literal of more digits than a double holds
ProgLongLiteral ==
    "print(99999999999999999999999.5)"

\* an array, an object and a cell of eval as operands of + and -
ProgMixedSum ==
    "var [xs] = a[1,2]\nprint(xs + 1)\nprint(xs - 1)\nvar [o1] = o[]\nprint(o1 + 1)\nprint(eval(2) + 2)"

\* comparisons of unbound names, booleans, the empty string, arrays and cells
ProgCompare ==
    "print(x == 1)\nprint(b < a, a < b)\nprint(bool[true] < bool[false], bool[true] == 1)\nprint(str[] == 0)\nvar [xs] = a[1,2]\nvar [ys] = a[1,2]\nprint(xs == xs, xs == ys, xs <= ys)\nprint(eval(2) == eval(2))\nfor [var [k] = 0, i < 1, k = k + 1]\n    print(k)"

\* the fields of a function value and of the nodes and tokens under it
ProgFunctionFields ==
    "func [f(p, q)]\n    return int[5]\nprint(f.params, f.params.e0, f.params.length)\nprint(f.body, f.body.e0.type)\nprint(f.closure, f.closure.size)\nprint(f.body.e0.value.bodyTokens.e0.type)"

\* members an array and an object inherit, and the Map of an object
ProgInherited ==
    "var [xs] = a[1,2]\nprint(xs.at)\nprint(xs.length, xs.__proto__)\nvar [o1] = o[]\nprint(o1.properties, o1.properties.size)\nprint(o1.__proto__, o1.__defineGetter__)\nprint(xs.at == xs.at)"

\* result read off a cell of eval that holds undefined, and a member it has not
ProgEmptyCell ==
    "var [c] = eval(print(1))\nprint(c.result)\nprint(c.zz)"

\* a missing member of a function value: the message shows the whole value
ProgFunctionMember ==
    "func [f()]\n    return 1\nprint(f.zz)"

\* a missing member of an array that holds undefined
ProgHoleMember ==
    "var [xs] = a[print(1),2]\nprint(xs.zz)"

\* a missing member of a host function
ProgHostMember ==
    "var [xs] = a[1,2]\nprint(xs.at.zz)"

\* a property of o[...] whose name token has no value
ProgBlankKey ==
    "var [o2] = o[prop x\n= 1]\nprint(o2)"

\* an error thrown two calls deep
ProgDeepError ==
    "func [inner()]\n    return nope(1)\nfunc [outer()]\n    var [t] = inner()\n    return t\nprint(outer())"

\* random in an argument of random, twice with the same bounds, and with
\* max below min
ProgRandomAgain ==
    "print(random(random(0, 1), 1))\nprint(random(1, 3))\nprint(random(1, 3))\nprint(random(3, 1))"

\* random with bounds that are no numbers: unbound names and strings of digits
ProgRandomWords ==
    "print(random(a, b))\nprint(random(1, b))\nprint(random(str[1], str[4]))"

Programs ==
    {ProgClosure,
     ProgLocal,
     ProgReturnInLoops,
     ProgBreakInner,
     ProgContinueInner,
     ProgNested,
     ProgStrayBreak,
     ProgStrayContinue,
     ProgForAll,
     ProgAssignUnbound,
     ProgUnknownFunction,
     ProgUnboundBox,
     ProgArrayError,
     ProgIslandError,
     ProgObjectError,
     ProgFormulaError,
     ProgAssignUnboundLocal,
     ProgEscapedClosure,
     ProgIndentEight,
     ProgIndentSix,
     ProgIndentTwo,
     ProgIndentTab,
     ProgSyntaxError,
     ProgEndless,
     ProgPlainParam,
     ProgBoxedParam,
     ProgEval,
     ProgRandomRange,
     ProgRandomArray,
     ProgObjectMembers,
     ProgArrayMembers,
     ProgPrecedence,
     ProgIdentifiers,
     ProgDynamicMember,
     ProgCallerScope,
     ProgPrintOrder,
     ProgBlankLines,
     ProgBlankLineCR,
     ProgFormulaFallback,
     ProgConditions,
     ProgEmptyTest,
     ProgGlobalFrame,
     ProgUnknownChars,
     ProgSpaces,
     ProgFractions,
     ProgThird,
     ProgLongLiteral,
     ProgMixedSum,
     ProgCompare,
     ProgFunctionFields,
     ProgInherited,
     ProgEmptyCell,
     ProgFunctionMember,
     ProgHoleMember,
     ProgHostMember,
     ProgBlankKey,
     ProgDeepError,
     ProgRandomWords,
     ProgRandomAgain,
     ProgHoleIndex,
     ProgLateGlobal,
     ProgArgumentAssigns}
    \cup Chains
    \cup ConstructorPairs

\* new Lexer(input) and new Interpreter(outputCallback)
Init ==
    /\ input \in Programs
    /\ pos = 0
    /\ tokens = <<>>
    /\ currentIndent = 0
    /\ phase = "lex"
    /\ ast = Null
    /\ ip = 0
    /\ heap = NewInterpreter.heap
    /\ output = NewInterpreter.output
    /\ evalResult = NewInterpreter.evalResult
    /\ trace = NewInterpreter.trace
    /\ fuel = NewInterpreter.fuel
    /\ nextId = NewInterpreter.nextId
    /\ made = NewInterpreter.made
    /\ caught = <<>>
    /\ escaped = FALSE

Next ==
    \/ LexStep
    \/ LexClose
    \/ LexReturn
    \/ Parse
    \/ RunStep
    \/ RunReturn

Spec == Init /\ [][Next]_vars

\* new Lexer(input).tokenize() alone
LexNext ==
    \/ LexStep
    \/ LexClose
    \/ LexReturn

\* Lexer.tokenize is sequential code: while it has an iteration to do, it does it
LexSpec == Init /\ [][LexNext]_vars /\ WF_vars(LexNext)

(***************************************************************************)
(* Properties.                                                             *)
(***************************************************************************)
\* the number of tokens of a type the lexer has produced
CountTokens(type) == Cardinality({i \in 1 .. Len(tokens) : tokens[i].type = type})

\* Parser.parse has returned a Program for the source text
Accepted == phase \in {"parsed", "done", "bound"}

\* C1: for every source text that is lexed and that Parser.parse accepts, the
\* token vector holds as many INDENT tokens as DEDENT tokens, whatever the
\* widths of the indentation steps.
C1_IndentDedentBalanced ==
    Accepted => CountTokens("INDENT") = CountTokens("DEDENT")

\* the declaration that made the function of the call logged at c: the last
\* declaration of that function value before c, 0 when there is none
DeclarationOf(c) ==
    LET ds == {d \in 1 .. c - 1 : trace[d].ev = "decl" /\ trace[d].func = trace[c].func}
    IN  IF ds = {} THEN 0 ELSE CHOOSE d \in ds : \A e \in ds : e <= d

\* C2: the scope a call starts from binds every name of the enclosing scope to
\* the value it had when the function declaration was executed, whatever was
\* assigned to it between the declaration and the call.
C2_ClosureIsDeclarationSnapshot ==
    \A c \in DOMAIN trace :
        (trace[c].ev = "call" /\ DeclarationOf(c) # 0) =>
            \A n \in DOMAIN trace[DeclarationOf(c)].snapshot :
                trace[c].scope0[n] = trace[DeclarationOf(c)].snapshot[n]

\* a VarDeclaration of the name has been executed in the scope of the
\* assignment logged at a, inside the same function call and before it
DeclaredLocally(a) ==
    \E d \in 1 .. a - 1 :
        /\ trace[d].ev = "stmt"
        /\ trace[d].type = "VarDeclaration"
        /\ trace[d].name = trace[a].name
        /\ trace[d].scope = trace[a].scope
        /\ trace[d].frame = trace[a].frame

\* the assignments executed in a function body to a name the body has declared
LocalAssignments ==
    {a \in DOMAIN trace : trace[a].ev = "assign" /\ trace[a].frame # 0 /\ DeclaredLocally(a)}

\* C3: an Assign to x executed in a function body after the body has declared
\* a local x with a VarDecl writes the function's own scope and leaves the
\* global scope, the global binding of x included, exactly as it was.
C3_LocalAssignLeavesGlobal ==
    \A a \in LocalAssignments :
        /\ trace[a].target = trace[a].scope
        /\ trace[a].scope # Globals
        /\ trace[a].after[2] = trace[a].before[2]
        /\ trace[a].after[1][trace[a].name] = trace[a].value

\* a function body has assigned to its local x while the globals bind x to
\* another value, and the call has returned with the global x as it was
C3_Witness ==
    \E a \in LocalAssignments :
        /\ trace[a].name \in DOMAIN trace[a].before[2]
        /\ trace[a].before[2][trace[a].name] # trace[a].value
        /\ trace[a].before[1][trace[a].name] # trace[a].value
        /\ phase = "done"
        /\ heap[Globals][trace[a].name] = trace[a].before[2][trace[a].name]

\* the returns executed inside at least one loop of a function body
ReturnsInLoops ==
    {r \in DOMAIN trace :
        trace[r].ev = "return" /\ trace[r].frame # 0 /\ trace[r].loops # <<>>}

\* the event k places after the return logged at r, its open loops being n
UnwindsLoop(r, k, n) ==
    /\ trace[r + k].ev = "bodyend"
    /\ trace[r + k].how = "RETURN"
    /\ trace[r + k].frame = trace[r].frame
    /\ trace[r + k].loop = trace[r].loops[n - k + 1]

\* C4: a return executed inside loops of a function body is followed by the
\* end of the body of each open loop, innermost first, and then at once by the
\* end of the call, which yields the returned value: no statement, test or
\* update executes in between.
C4_ReturnInLoopEndsCall ==
    \A r \in ReturnsInLoops :
        LET n == Len(trace[r].loops)
        IN  /\ r + n + 1 <= Len(trace)
            /\ \A k \in 1 .. n : UnwindsLoop(r, k, n)
            /\ trace[r + n + 1].ev = "exit"
            /\ trace[r + n + 1].id = trace[r].frame
            /\ trace[r + n + 1].value = trace[r].value

\* a return has been executed two loops deep in a function body, after the
\* body has gone through iterations, and the caller has printed its value
C4_Witness ==
    \E r \in ReturnsInLoops :
        /\ Len(trace[r].loops) >= 2
        /\ \E b \in 1 .. r - 1 : trace[b].ev = "bodyend" /\ trace[b].how = "NORMAL"
                                   /\ trace[b].frame = trace[r].frame
        /\ phase = "done"
        /\ output # <<>>
        /\ output[Len(output)] = <<formatOutput(trace[r].value)>>

\* the break and continue statements executed directly in a loop of their call
Jumps(type) ==
    {b \in DOMAIN trace : trace[b].ev = "stmt" /\ trace[b].type = type /\ trace[b].loop # 0}

\* the event at k is logged and is the event ev of loop id
IsLoopEvent(k, ev, id) ==
    /\ k <= Len(trace)
    /\ trace[k].ev = ev
    /\ trace[k].loop = id

\* the event at k, when there is one, belongs to the iteration in progress of
\* the loops around the one that has ended: a statement of the enclosing body,
\* or the normal end of that body
GoesOnOutside(k, outer) ==
    k <= Len(trace) =>
        \/ trace[k].ev = "stmt" /\ trace[k].loops = outer
        \/ /\ outer # <<>>
           /\ IsLoopEvent(k, "bodyend", outer[Len(outer)])
           /\ trace[k].how = "NORMAL"
        \/ outer = <<>> /\ trace[k].ev \in {"return", "exit"}

\* C5: a break executed in a loop ends the body of that loop and that loop
\* only, and execution goes on with what follows the loop in the enclosing
\* body; a continue ends the body of that loop only, and the same loop goes on
\* with its update or its next test.
C5_JumpAffectsNearestLoop ==
    /\ \A b \in Jumps("BreakStatement") :
           /\ IsLoopEvent(b + 1, "bodyend", trace[b].loop)
           /\ trace[b + 1].how = "BREAK"
           /\ IsLoopEvent(b + 2, "loopend", trace[b].loop)
           /\ trace[b + 2].by = "break"
           /\ GoesOnOutside(b + 3, SubSeq(trace[b].loops, 1, Len(trace[b].loops) - 1))
    /\ \A c \in Jumps("ContinueStatement") :
           /\ IsLoopEvent(c + 1, "bodyend", trace[c].loop)
           /\ trace[c + 1].how = "CONTINUE"
           /\ \/ IsLoopEvent(c + 2, "update", trace[c].loop)
              \/ IsLoopEvent(c + 2, "test", trace[c].loop)

\* in one run, a break and a continue have each been executed in a loop nested
\* in another loop, and the outer loop has gone on to a later iteration
C5_Witness ==
    /\ \E b \in Jumps("BreakStatement") :
           /\ Len(trace[b].loops) >= 2
           /\ \E t \in b + 3 .. Len(trace) :
                  IsLoopEvent(t, "test", trace[b].loops[Len(trace[b].loops) - 1])
    /\ \E c \in Jumps("ContinueStatement") :
           /\ Len(trace[c].loops) >= 2
           /\ \E t \in c + 3 .. Len(trace) :
                  IsLoopEvent(t, "test", trace[c].loops[Len(trace[c].loops) - 1])

\* the calls whose body ended with a BREAK or a CONTINUE of its own
StrayExits ==
    {e \in DOMAIN trace :
        trace[e].ev = "exit" /\ TypeOf(trace[e].result) \in {"BREAK", "CONTINUE"}}

\* the event that logged the start of the call that ends at e
CallOf(e) == CHOOSE c \in 1 .. e - 1 : trace[c].ev = "call" /\ trace[c].id = trace[e].id

\* the statement that ended the body of a loop with how
JumpStatement(how) ==
    IF how = "BREAK" THEN "BreakStatement" ELSE "ContinueStatement"

\* C6: no variable of any scope holds a RETURN, BREAK or CONTINUE record; no
\* call yields one to its caller; and the body of a loop ends with BREAK or
\* CONTINUE only by a break or continue statement executed directly in that
\* loop by the same call, so one executed by a called function never ends or
\* advances a loop of the caller.
C6_ControlStaysInCall ==
    /\ \A s \in DOMAIN heap : \A n \in DOMAIN heap[s] : ~IsControl(heap[s][n])
    /\ \A e \in DOMAIN trace :
           trace[e].ev = "exit" => ~IsControl(trace[e].value)
    /\ \A k \in DOMAIN trace :
           (trace[k].ev = "bodyend" /\ trace[k].how \in {"BREAK", "CONTINUE"}) =>
               /\ k > 1
               /\ trace[k - 1].ev = "stmt"
               /\ trace[k - 1].type = JumpStatement(trace[k].how)
               /\ trace[k - 1].loop = trace[k].loop
               /\ trace[k - 1].frame = trace[k].frame
    /\ \A k \in DOMAIN trace :
           (trace[k].ev = "loopend" /\ trace[k].by = "break") =>
               /\ IsLoopEvent(k - 1, "bodyend", trace[k].loop)
               /\ trace[k - 1].how = "BREAK"

\* a function called in a loop has executed break outside any loop of its
\* body, the caller has bound the value of the call to a variable, and the
\* caller's loop has gone on to its next test
C6_Witness ==
    \E e \in StrayExits :
        /\ trace[CallOf(e)].loops # <<>>
        /\ \E t \in e + 1 .. Len(trace) :
               IsLoopEvent(t, "test", trace[CallOf(e)].loops[Len(trace[CallOf(e)].loops)])
        /\ "r" \in DOMAIN heap[Globals]
        /\ heap[Globals]["r"] = trace[e].value

\* the events of the loop id: its init, tests, ends of body, updates and end
LoopEvents(id) ==
    {k \in DOMAIN trace :
        /\ trace[k].ev \in {"init", "test", "bodyend", "update", "loopend"}
        /\ trace[k].loop = id}

\* the first event of the loop id after position k, 0 when there is none
NextOf(id, k) ==
    LET later == {j \in LoopEvents(id) : j > k}
    IN  IF later = {} THEN 0 ELSE CHOOSE j \in later : \A i \in later : j <= i

\* the for loops that have begun
ForLoops == {trace[k].loop : k \in {j \in DOMAIN trace : trace[j].ev = "init"}}

\* the ends of the body of the loop id that were logged with one of hows
BodyEnds(id, hows) ==
    {b \in LoopEvents(id) : trace[b].ev = "bodyend" /\ trace[b].how \in hows}

\* C7: in a for loop, init executes once and before anything else of the loop;
\* after a body that ends normally or with continue the update executes once,
\* at once, and the next thing the loop does is to evaluate its test; an
\* update executes only then; after a body that ends with break or return the
\* loop executes no update and no test any more.
C7_ForInitOnceUpdateAfterBody ==
    \A id \in ForLoops :
        /\ Cardinality({k \in LoopEvents(id) : trace[k].ev = "init"}) = 1
        /\ \A k \in LoopEvents(id) : trace[k].ev = "init" => \A j \in LoopEvents(id) : k <= j
        /\ \A b \in BodyEnds(id, {"NORMAL", "CONTINUE"}) :
               /\ IsLoopEvent(b + 1, "update", id)
               /\ NextOf(id, b + 1) # 0
               /\ trace[NextOf(id, b + 1)].ev = "test"
        /\ \A u \in LoopEvents(id) :
               trace[u].ev = "update" =>
                   u - 1 \in BodyEnds(id, {"NORMAL", "CONTINUE"})
        /\ \A b \in BodyEnds(id, {"BREAK"}) :
               /\ IsLoopEvent(b + 1, "loopend", id)
               /\ NextOf(id, b + 1) = 0
        /\ \A b \in BodyEnds(id, {"RETURN"}) : NextOf(id, b) = 0

\* one for loop has had a body that ended normally, one that ended with
\* continue and one that ended with break
C7_Witness ==
    \E id \in ForLoops :
        /\ BodyEnds(id, {"NORMAL"}) # {}
        /\ BodyEnds(id, {"CONTINUE"}) # {}
        /\ BodyEnds(id, {"BREAK"}) # {}
        /\ phase = "done"

\* the calls of the output callback that carry the error flag
ErrorReports == {k \in DOMAIN output : Len(output[k]) = 2 /\ output[k][2] = TRUE}

\* C8: when an error is raised while the program runs, Interpreter.run calls
\* the output callback exactly once with the text "Runtime Error: <message>"
\* and the error flag true, and then raises the error again to its caller.
C8_RunReportsRuntimeErrorAndRethrows ==
    caught # <<>> =>
        /\ Cardinality(ErrorReports) = 1
        /\ output[Len(output)] = <<"Runtime Error: " \o caught[1], TRUE>>
        /\ escaped

\* the errors raised while the program ran
Throws == {k \in DOMAIN trace : trace[k].ev = "throw"}

\* C9: an error raised while evaluating any expression, an expression inside
\* a[...], f[...], o[...] or an island of fstr[...] included, reaches
\* Interpreter.run: the run is over with that error caught at the top level,
\* and nothing is evaluated or executed after the error was raised.
C9_EveryErrorIsFatal ==
    \A k \in Throws :
        /\ phase = "done"
        /\ caught = <<trace[k].message>>
        /\ k = Len(trace)

\* the assignments to a name bound neither in the scope nor in the globals
UnboundAssignments ==
    {a \in DOMAIN trace :
        /\ trace[a].ev = "assign"
        /\ trace[a].name \notin DOMAIN trace[a].before[1]
        /\ trace[a].name \notin DOMAIN trace[a].before[2]}

\* C10: an Assign to a name bound neither in the current scope nor in the
\* global scope writes to no Map: every binding of both scopes is as it was
\* once the value had been evaluated, the name is still bound in neither, and
\* the statement raises "Undefined variable for assignment: <name>".
C10_AssignUnboundRaises ==
    \A a \in UnboundAssignments :
        /\ trace[a].target = 0
        /\ trace[a].after = trace[a].before
        /\ trace[a].name \notin DOMAIN trace[a].after[1]
        /\ trace[a].name \notin DOMAIN trace[a].after[2]
        /\ a + 1 <= Len(trace)
        /\ trace[a + 1].ev = "throw"
        /\ trace[a + 1].message = "Undefined variable for assignment: " \o trace[a].name
        /\ trace[a + 1].frame = trace[a].frame

\* a function body has assigned to a name bound nowhere while its scope and
\* the globals held other bindings, and the run has ended with the error
C10_Witness ==
    \E a \in UnboundAssignments :
        /\ trace[a].frame # 0
        /\ trace[a].scope # Globals
        /\ trace[a].before[1] # <<>>
        /\ trace[a].before[2] # <<>>
        /\ phase = "done"
        /\ output[Len(output)] = reportError("Undefined variable for assignment: " \o trace[a].name)
        /\ heap[trace[a].scope] = trace[a].before[1]
        /\ heap[Globals] = trace[a].before[2]

\* C11: a function declaration is accepted with its parameters written as
\* plain identifiers and with them written as var[name] boxes: in both forms
\* Parser.parse returns a Program, and the program that adds its argument 5
\* to the global 10 runs to the end and prints the single line 15.
C11_BothParameterFormsAccepted ==
    input \in {ProgPlainParam, ProgBoxedParam} =>
        /\ phase # "syntax_error"
        /\ phase = "done" => output = <<<<"15">>>> /\ caught = <<>>

\* the calls of eval
Evals == {e \in DOMAIN trace : trace[e].ev = "eval"}

\* the value the most recent eval(x) before the call logged at e stored, the
\* initial null when there was none
LastStored(e) ==
    LET stores == {s \in Evals : s < e /\ trace[s].args > 0}
    IN  IF stores = {} THEN NewInterpreter.evalResult
        ELSE trace[CHOOSE s \in stores : \A t \in stores : t <= s].arg

\* C12: eval() yields a cell whose result is the argument value of the most
\* recent eval(x), or the initial null when there was none, and leaves the
\* stored result as it is; eval(x) yields a cell with result x and stores x;
\* the stored result of the interpreter is the one the last call left.
C12_EvalKeepsLastResult ==
    /\ \A e \in Evals :
           /\ trace[e].before = LastStored(e)
           /\ trace[e].args = 0 =>
                  /\ trace[e].cell.result = LastStored(e)
                  /\ trace[e].after = trace[e].before
           /\ trace[e].args > 0 =>
                  /\ trace[e].cell.result = trace[e].arg
                  /\ trace[e].after = trace[e].arg
    /\ evalResult = LastStored(Len(trace) + 1)

\* eval() has been called before any eval(x), twice in a row after one, and
\* after a second eval(x) that stored another value
C12_Witness ==
    /\ \E e \in Evals : trace[e].args = 0 /\ trace[e].cell.result = Null
    /\ \E e, f \in Evals : /\ e < f
                           /\ trace[e].args = 0
                           /\ trace[f].args = 0
                           /\ \A s \in Evals : (e < s /\ s < f) => trace[s].args = 0
                           /\ trace[f].cell.result = trace[e].cell.result
                           /\ trace[e].cell.result # Null
    /\ \E e, f \in Evals : /\ e < f
                           /\ trace[e].args > 0
                           /\ trace[f].args = 0
                           /\ trace[f].cell.result # trace[e].arg
    /\ phase = "done"

\* the calls of random
Randoms == {r \in DOMAIN trace : trace[r].ev = "random"}

\* the call logged at r had one argument, a non-empty array
OfArray(r) ==
    /\ trace[r].args = 1
    /\ trace[r].min.jt = "array"
    /\ trace[r].min.elems # <<>>

\* the call logged at r had two integers min <= max, bare or boxed
OfRange(r) ==
    /\ trace[r].args = 2
    /\ ValueOrSelf(trace[r].min).jt = "number"
    /\ ValueOrSelf(trace[r].max).jt = "number"
    /\ ValueOrSelf(trace[r].min).n <= ValueOrSelf(trace[r].max).n

\* the call logged at r returned an integer between its two arguments
InRange(r) ==
    /\ ~trace[r].raised
    /\ trace[r].result.jt = "number"
    /\ ValueOrSelf(trace[r].min).n <= trace[r].result.n
    /\ trace[r].result.n <= ValueOrSelf(trace[r].max).n

\* C13: random called with one argument that is a non-empty array raises no
\* error and returns an element of the array; called with two integers
\* min <= max it returns an integer r with min <= r <= max.
C13_RandomPicksElementOrInRange ==
    \A r \in Randoms :
        /\ OfArray(r) =>
               /\ ~trace[r].raised
               /\ \E i \in DOMAIN trace[r].min.elems : trace[r].result = trace[r].min.elems[i]
        /\ OfRange(r) => InRange(r)

\* the member accesses evaluated
Members == {m \in DOMAIN trace : trace[m].ev = "member"}

\* the member access logged at m is on an Object value, with a property name
\* that is not a key of its properties map
OfMissingProperty(m) ==
    /\ TypeOf(trace[m].object) = "OBJECT"
    /\ Str(trace[m].property) \notin DOMAIN trace[m].object.properties.vals

\* C14: a member access on an Object value with a property name that is not a
\* key of its properties map raises "Cannot access property ...", whatever the
\* name, type, properties and result included.
C14_MissingPropertyRaises ==
    \A m \in Members :
        OfMissingProperty(m) =>
            /\ trace[m].raised
            /\ m + 1 <= Len(trace)
            /\ trace[m + 1].ev = "throw"
            /\ SubSeq(trace[m + 1].message, 1, 22) = "Cannot access property"

\* the property name is e<k>, k a decimal number
IsElementName(prop) ==
    Len(prop) > 1 /\ CharAt(prop, 0) = "e" /\ AllDigits(SubSeq(prop, 2, Len(prop)))

\* the index k a property name e<k> or <k> stands for
IndexNamed(prop) ==
    IF IsElementName(prop) THEN DigitsValue(SubSeq(prop, 2, Len(prop)), Len(prop) - 1)
    ELSE DigitsValue(prop, Len(prop))

\* the member accesses on an Array value with the property val, e<k> or <k>
ArrayReads ==
    {m \in Members :
        /\ trace[m].object.jt = "array"
        /\ \/ trace[m].property = "val"
           \/ IsElementName(trace[m].property)
           \/ AllDigits(trace[m].property)}

\* C15: on an Array value the property val yields the array itself, and a
\* property e<k> or <k> yields the element at 0-based index k when k is less
\* than the length and the primitive string "undefined" otherwise; none of
\* these accesses raises an error.
C15_ArrayMemberAccess ==
    \A m \in ArrayReads :
        /\ ~trace[m].raised
        /\ trace[m].property = "val" => trace[m].value = trace[m].object
        /\ trace[m].property # "val" =>
               IF IndexNamed(trace[m].property) < Len(trace[m].object.elems)
               THEN trace[m].value = trace[m].object.elems[IndexNamed(trace[m].property) + 1]
               ELSE trace[m].value = Primitive(Str("undefined"))

\* the element that the read logged at m names is there and is not undefined
ReadsElement(m) ==
    /\ IndexNamed(trace[m].property) < Len(trace[m].object.elems)
    /\ trace[m].object.elems[IndexNamed(trace[m].property) + 1] # Undefined

\* C15, amended: on an Array value the property val yields the array itself,
\* and a property e<k> or <k> yields the element at 0-based index k when k is
\* less than the length and that element is not undefined, and the primitive
\* string "undefined" otherwise; none of these accesses raises an error.
C15_ArrayMemberAccessUnlessUndefined ==
    \A m \in ArrayReads :
        /\ ~trace[m].raised
        /\ trace[m].property = "val" => trace[m].value = trace[m].object
        /\ trace[m].property # "val" =>
               IF ReadsElement(m)
               THEN trace[m].value = trace[m].object.elems[IndexNamed(trace[m].property) + 1]
               ELSE trace[m].value = Primitive(Str("undefined"))

\* one run has read val, the first element, which is undefined, under both
\* spellings, the last element, an index equal to the length and one beyond it
C15_Witness ==
    /\ input = ProgHoleIndex
    /\ phase = "done"
    /\ output = << <<"1">>, <<"2">>, <<"undefined undefined 2">>, <<"undefined undefined">> >>
    /\ \E m \in ArrayReads : trace[m].property = "val" /\ trace[m].value = trace[m].object
    /\ \A p \in {"e0", "0"} :
           \E m \in ArrayReads : /\ trace[m].property = p
                                 /\ trace[m].object.elems[1] = Undefined
                                 /\ Len(trace[m].object.elems) = 2
                                 /\ trace[m].value = Primitive(Str("undefined"))
    /\ \E m \in ArrayReads : /\ trace[m].property = "e1" /\ ReadsElement(m)
                             /\ trace[m].value = trace[m].object.elems[2]
                             /\ trace[m - 1].ev = "member"
    /\ \A p \in {"e2", "5"} :
           \E m \in ArrayReads : /\ trace[m].property = p
                                 /\ Len(trace[m].object.elems) = 2
                                 /\ trace[m].value = Primitive(Str("undefined"))

\* the Literal node of a number
Literal(n) == [type |-> "Literal", value |-> Num(n)]

\* the argument of the print call that is the only statement of the program
PrintedExpression == ast.body[1].expression.arguments[1]

\* C16: + - * / bind at one level and associate to the left, and every
\* comparison operator binds looser than them: 8 op1 4 op2 2 parses as
\* ((8 op1 4) op2 2) and 8 op1 4 cmp 2 op2 1 as ((8 op1 4) cmp (2 op2 1)), and
\* they evaluate so; 1 + 2 * 3 prints 9 and 8 - 2 - 1 prints 5.
C16_OnePrecedenceLeftToRight ==
    /\ input \in Chains \cup {ProgPrecedence} => phase # "syntax_error"
    /\ \A op1, op2 \in AdditiveOps :
           /\ (input = ArithmeticChain(op1, op2) /\ Accepted) =>
                  PrintedExpression =
                      BinaryExpression(BinaryExpression(Literal(8), op1, Literal(4)),
                                       op2, Literal(2))
           /\ (input = ArithmeticChain(op1, op2) /\ phase = "done") =>
                  output = << <<formatOutput(applyOp(op2, applyOp(op1, Num(8), Num(4)),
                                                     Num(2)))>> >>
           /\ \A cmp \in ComparisonOps :
                  /\ (input = ComparisonChain(op1, cmp, op2) /\ Accepted) =>
                         PrintedExpression =
                             BinaryExpression(
                                 BinaryExpression(Literal(8), op1, Literal(4)), cmp,
                                 BinaryExpression(Literal(2), op2, Literal(1)))
                  /\ (input = ComparisonChain(op1, cmp, op2) /\ phase = "done") =>
                         output = << <<formatOutput(
                                           applyOp(cmp, applyOp(op1, Num(8), Num(4)),
                                                   applyOp(op2, Num(2), Num(1))))>> >>
    /\ (input = ProgPrecedence /\ phase = "done") => output = << <<"9">>, <<"5">> >>

\* 8 - 4 * 2 has been parsed with the subtraction as the left operand of the
\* multiplication, and has printed 8
C16_Witness ==
    /\ input = ArithmeticChain("-", "*")
    /\ phase = "done"
    /\ PrintedExpression.operator = "*"
    /\ PrintedExpression.left.operator = "-"
    /\ output = << <<"8">> >>


(***************************************************************************)
(* C17: for every non-negative integer literal n, int[n] and fint[{n}]     *)
(* evaluate to equal primitive values, and for every bare word w, str[w]   *)
(* and fstr[w] evaluate to equal primitive strings. The programs IntPair   *)
(* and StrPair bind the two values to the globals a and b.                 *)
(***************************************************************************)
BoundEqual ==
    /\ {"a", "b"} \subseteq DOMAIN heap[Globals]
    /\ heap[Globals]["a"].type = "primitive"
    /\ heap[Globals]["b"].type = "primitive"
    /\ JsString(heap[Globals]["a"].value) = JsString(heap[Globals]["b"].value)
    /\ heap[Globals]["a"].value.jt = heap[Globals]["b"].value.jt

C17_ConstructorsAgree ==
    /\ \A n \in IntLiterals :
           input = IntPair(n) /\ phase = "done"
               => BoundEqual /\ heap[Globals]["a"].value.jt \in {"number", "inexact"}
    /\ \A w \in BareWords :
           input = StrPair(w) /\ phase = "done"
               => BoundEqual /\ heap[Globals]["a"].value = Str(w)

\* the same on the literals below 10^21, and on every bare word
C17_AgreeBelowExponentNotation ==
    /\ \A n \in IntLiterals \ {"1000000000000000000000"} :
           input = IntPair(n) /\ phase = "done"
               => BoundEqual /\ heap[Globals]["a"].value.jt \in {"number", "inexact"}
    /\ \A w \in BareWords :
           input = StrPair(w) /\ phase = "done"
               => BoundEqual /\ heap[Globals]["a"].value = Str(w)


(***************************************************************************)
(* C18: evaluating an Identifier yields the binding of the name in the     *)
(* current scope when there is one, else its binding in the global scope,  *)
(* and when the name is bound in neither it raises no error and yields the *)
(* name itself as a string.                                                *)
(***************************************************************************)
Identifiers == {i \in 1 .. Len(trace) : trace[i].ev = "identifier"}

C18_IdentifierScopeThenGlobals ==
    \A i \in Identifiers :
        /\ ~trace[i].raised
        /\ trace[i].inScope => trace[i].value = trace[i].scopeValue
        /\ ~trace[i].inScope /\ trace[i].inGlobals => trace[i].value = trace[i].globalValue
        /\ ~trace[i].inScope /\ ~trace[i].inGlobals => trace[i].value = Str(trace[i].name)

\* in one call of inner: x is read from the scope over a different global x
\* and late, which the scope has not, from the globals; at top level nowhere
\* comes out as its own name
C18_Witness ==
    /\ input = ProgLateGlobal
    /\ phase = "done"
    /\ output = << <<"12 1 nowhere">> >>
    /\ \E i, j, k \in Identifiers :
           /\ i < j /\ j < k
           /\ trace[i].scope # Globals /\ trace[j].scope = trace[i].scope
           /\ trace[i].name = "x" /\ trace[i].inScope /\ trace[i].inGlobals
           /\ trace[i].scopeValue = Num(5) /\ trace[i].globalValue = Num(1)
           /\ trace[i].value = Num(5)
           /\ trace[j].name = "late" /\ ~trace[j].inScope /\ trace[j].inGlobals
           /\ trace[j].globalValue = Num(7) /\ trace[j].value = Num(7)
           /\ trace[k].name = "nowhere" /\ ~trace[k].inScope /\ ~trace[k].inGlobals
           /\ trace[k].value = Str("nowhere")


(***************************************************************************)
(* C19: in the postfix chain of parseCallMemberPrimary a '.' followed by   *)
(* '{' expr '}' is accepted and gives a dynamic Member node holding the    *)
(* parsed expression, not a syntax error; a '.' followed by an identifier  *)
(* or a number gives a static Member node.                                 *)
(***************************************************************************)
IsStaticMember(node, prop) ==
    /\ node.type = "MemberExpression"
    /\ node.property = prop
    /\ "dynamic" \in DOMAIN node => ~node.dynamic

IsDynamicMember(node) ==
    /\ node.type = "MemberExpression"
    /\ "dynamic" \in DOMAIN node
    /\ node.dynamic
    /\ node.property = [type |-> "Identifier", value |-> "key"]

C19_DynamicAndStaticMembersParsed ==
    /\ input = ProgDynamicMember => phase # "syntax_error"
    /\ input = ProgDynamicMember /\ Accepted
           => IsDynamicMember(ast.body[3].expression.arguments[1])
    /\ input = ProgArrayMembers /\ Accepted
           => /\ IsStaticMember(ast.body[2].expression.arguments[1], "val")
              /\ IsStaticMember(ast.body[3].expression.arguments[2], "2")

\* the static half alone: after a '.', an identifier or a number is the property
C19_StaticMembersParsed ==
    input = ProgArrayMembers /\ Accepted
        => /\ IsStaticMember(ast.body[2].expression.arguments[1], "val")
           /\ IsStaticMember(ast.body[3].expression.arguments[2], "2")


(***************************************************************************)
(* C20: on a user function call each parameter is bound, in the new        *)
(* function scope, to the value of its argument expression evaluated in    *)
(* the caller's scope: an argument that names a variable of the caller     *)
(* reads the caller's value even when the function's closure binds the     *)
(* name to another one, and evaluating the arguments changes no binding of *)
(* the caller's scope.                                                     *)
(***************************************************************************)
Binds == {i \in 1 .. Len(trace) : trace[i].ev = "bind"}

\* the argument of the bind event e is a name that the caller's scope binds
NamesCallerVariable(e) ==
    /\ e.argument.type = "Identifier"
    /\ e.argument.value \in DOMAIN e.callerBefore

\* C20: each parameter is bound, in the new function scope, to the value of
\* its argument expression evaluated in the caller's scope; an argument that
\* names a caller variable has the caller's value, and from before the
\* argument is evaluated until the parameter is bound no binding of the
\* caller's scope changes.
C20_ArgumentsEvaluatedInCallerScope ==
    \A i \in Binds :
        /\ trace[i].funcScope # trace[i].callerScope
        /\ trace[i].param \in DOMAIN trace[i].funcAfter
        /\ trace[i].funcAfter[trace[i].param] = trace[i].value
        /\ trace[i].callerAfter = trace[i].callerBefore
        /\ NamesCallerVariable(trace[i])
               => trace[i].value = trace[i].callerBefore[trace[i].argument.value]

\* the expression calls nothing: no argument at all, a name, a number, or an
\* operation or a member access on such expressions
RECURSIVE CallsNothing(_)
CallsNothing(node) ==
    CASE node = Undefined -> TRUE
      [] node.type \in {"Identifier", "Literal"} -> TRUE
      [] node.type = "BinaryExpression" -> CallsNothing(node.left) /\ CallsNothing(node.right)
      [] node.type = "MemberExpression" -> CallsNothing(node.object)
      [] OTHER -> FALSE

\* C20, amended: each parameter is bound, in the new function scope, to the
\* value of its argument expression evaluated in the caller's scope; an
\* argument that names a caller variable has the caller's value; binding the
\* parameter changes no binding of the caller's scope, and evaluating the
\* argument changes none unless the argument expression makes a call.
C20_ArgumentsEvaluatedInCallerScopeCallsApart ==
    \A i \in Binds :
        /\ trace[i].funcScope # trace[i].callerScope
        /\ trace[i].param \in DOMAIN trace[i].funcAfter
        /\ trace[i].funcAfter[trace[i].param] = trace[i].value
        /\ trace[i].callerAfter = trace[i].callerEvaluated
        /\ CallsNothing(trace[i].argument) => trace[i].callerEvaluated = trace[i].callerBefore
        /\ NamesCallerVariable(trace[i])
               => trace[i].value = trace[i].callerBefore[trace[i].argument.value]

\* show(x, x + 1) called where x is 5, the closure of show holding x = 1; then
\* show(g(), x) called at top level, g() assigning 7 to the x of the caller
C20_Witness ==
    /\ input = ProgArgumentAssigns
    /\ phase = "done"
    /\ output = << <<"16 1">>, <<"8 7">> >>
    /\ \E i, j \in Binds :
           /\ i < j /\ trace[j].funcScope = trace[i].funcScope
           /\ NamesCallerVariable(trace[i])
           /\ trace[i].param = "x" /\ trace[i].argument.value = "x"
           /\ trace[i].callerScope # Globals
           /\ trace[i].callerBefore["x"] = Num(5)
           /\ trace[i].closure["x"] = Num(1)
           /\ trace[i].value = Num(5)
           /\ trace[i].callerAfter["x"] = Num(5)
           /\ trace[j].param = "q" /\ trace[j].value = Num(6)
           /\ trace[j].funcAfter["x"] = Num(5)
    /\ \E i, j \in Binds :
           /\ i < j /\ trace[j].funcScope = trace[i].funcScope
           /\ trace[i].callerScope = Globals
           /\ trace[i].param = "x" /\ trace[i].argument.type = "CallExpression"
           /\ trace[i].callerBefore["x"] = Num(1)
           /\ trace[i].callerEvaluated["x"] = Num(7)
           /\ trace[i].callerAfter = trace[i].callerEvaluated
           /\ trace[i].value = Num(1) /\ trace[i].funcAfter["x"] = Num(1)
           /\ trace[j].param = "q" /\ NamesCallerVariable(trace[j])
           /\ trace[j].value = Num(7) /\ trace[j].callerAfter["x"] = Num(7)


(***************************************************************************)
(* C21: each executed print call invokes the output callback exactly once, *)
(* with its formatted arguments joined by single spaces, and the calls of  *)
(* the callback are in the order in which the print calls are executed.    *)
(***************************************************************************)
Prints == {i \in 1 .. Len(trace) : trace[i].ev = "print"}

\* the calls of the output callback made by print
PrintLines == DOMAIN output \ ErrorReports

\* the texts with one space between neighbours
RECURSIVE SpaceJoined(_)
SpaceJoined(texts) ==
    IF texts = <<>> THEN ""
    ELSE IF Len(texts) = 1 THEN texts[1]
    ELSE SpaceJoined(SubSeq(texts, 1, Len(texts) - 1)) \o " " \o texts[Len(texts)]

C21_PrintOneLineInOrder ==
    /\ Cardinality(PrintLines) = Cardinality(Prints)
    /\ \A i \in Prints :
           /\ Len(trace[i].texts) = trace[i].arguments
           /\ trace[i].call = Cardinality({j \in Prints : j <= i})
           /\ trace[i].call \in PrintLines
           /\ output[trace[i].call] = <<SpaceJoined(trace[i].texts)>>

\* six print calls: the one inside f ends before the one that calls f
C21_Witness ==
    /\ input = ProgPrintOrder
    /\ phase = "done"
    /\ Cardinality(Prints) = 6
    /\ output = << <<"1 inside">>, <<"a 2 b">>, <<"">>, <<"7">>, <<"2 inside">>,
                   <<"undefined 3">> >>
    /\ \E i, j \in Prints :
           /\ i < j
           /\ trace[i].frame # 0 /\ trace[i].texts = <<"1", "inside">>
           /\ trace[j].frame = 0 /\ trace[j].texts = <<"a", "2", "b">>


(***************************************************************************)
(* C22: a blank line, a whitespace-only line or a comment-only line, at    *)
(* any indentation width, makes the lexer emit no INDENT and no DEDENT     *)
(* token and leaves currentIndent unchanged. The line is the one that      *)
(* begins after the line break the lexer is reading.                       *)
(***************************************************************************)
\* where the line that begins at 0-based position p of s stops being whitespace
FirstInk(s, p) ==
    Min({q \in p .. Len(s) :
            q = Len(s) \/ CharAt(s, q) = "\n" \/ ~IsWhitespace(CharAt(s, q))})

\* the line that begins at p holds whitespace only, or whitespace and a comment
BlankOrComment(s, p) ==
    FirstInk(s, p) = Len(s) \/ CharAt(s, FirstInk(s, p)) \in {"\n", "#"}

\* the same with spaces and tabs for whitespace
FirstMark(s, p) ==
    Min({q \in p .. Len(s) : q = Len(s) \/ CharAt(s, q) \notin {" ", "\t"}})

SpacesOrComment(s, p) ==
    FirstMark(s, p) = Len(s) \/ CharAt(s, FirstMark(s, p)) \in {"\n", "#"}

\* the lexer is about to read a line break
AtLineBreak == phase = "lex" /\ pos < Len(input) /\ CharAt(input, pos) = "\n"

\* the step adds the NEWLINE token and nothing else, and keeps currentIndent
OnlyNewline ==
    /\ Len(tokens') = Len(tokens) + 1
    /\ SubSeq(tokens', 1, Len(tokens)) = tokens
    /\ tokens'[Len(tokens')].type = "NEWLINE"
    /\ currentIndent' = currentIndent

C22_BlankLineKeepsIndent ==
    [][AtLineBreak /\ BlankOrComment(input, pos + 1) => OnlyNewline]_vars

\* what holds: the lines made of spaces, tabs and a comment keep the indent
C22_SpaceLineKeepsIndent ==
    [][AtLineBreak /\ SpacesOrComment(input, pos + 1) => OnlyNewline]_vars


(***************************************************************************)
(* C23: when the body tokens of f[...] or fobj[...] cannot be parsed as an *)
(* expression, the evaluation yields the concatenation of the texts of all *)
(* the body tokens, not only the first one.                                *)
(***************************************************************************)
Formulas == {i \in 1 .. Len(trace) : trace[i].ev = "formula"}

\* the body of the formula event e is not empty and is no expression
Unparsed(e) == Len(e.tokens) > 0 /\ ~e.parsed

\* the texts of the tokens, one after the other
RECURSIVE TextsOf(_)
TextsOf(toks) ==
    IF toks = <<>> THEN "" ELSE toks[1].value \o TextsOf(Tail(toks))

C23_FallbackConcatenatesTokens ==
    \A i \in Formulas :
        Unparsed(trace[i]) => trace[i].value = Str(TextsOf(trace[i].tokens))

\* what holds: the fallback yields the text of the first body token
C23_FallbackYieldsFirstToken ==
    \A i \in Formulas :
        Unparsed(trace[i]) => trace[i].value = Str(trace[i].tokens[1].value)


(***************************************************************************)
(* C24: an If statement executes its consequent iff the payload of the     *)
(* value of its test is not false, not 0 and not null, and otherwise its   *)
(* alternate when it has one; a While statement goes on iterating under    *)
(* the same condition on its test. The payload of a primitive is its       *)
(* value field, the payload of a bare value is the value; undefined counts *)
(* as null.                                                                *)
(***************************************************************************)
Ifs == {i \in 1 .. Len(trace) : trace[i].ev = "if"}

Whiles == {i \in 1 .. Len(trace) : trace[i].ev = "while"}

Payload(v) == IF JsField(v, "value") # Undefined THEN JsField(v, "value") ELSE v

PayloadHolds(v) ==
    /\ Payload(v).jt \notin {"null", "undefined"}
    /\ Payload(v) # Bool(FALSE)
    /\ Payload(v) # Num(0)

\* the branch an If statement goes to when its test does or does not hold
BranchFor(holds, alternate) ==
    IF holds THEN "consequent" ELSE IF alternate THEN "alternate" ELSE "none"

C24_BranchOnPayload ==
    /\ \A i \in Ifs :
           trace[i].branch = BranchFor(PayloadHolds(trace[i].test), trace[i].alternate)
    /\ \A i \in Whiles :
           trace[i].continues = PayloadHolds(trace[i].test)

\* the bare values that the host counts as false beside false, 0 and null
BareEmptyOrNaN(v) == v = Str("") \/ v.jt = "NaN"

\* what holds: the same on every test that is not the bare empty string or NaN
C24_BranchOnPayloadUnlessBareEmpty ==
    /\ \A i \in Ifs :
           ~BareEmptyOrNaN(trace[i].test) =>
               trace[i].branch = BranchFor(PayloadHolds(trace[i].test), trace[i].alternate)
    /\ \A i \in Whiles :
           ~BareEmptyOrNaN(trace[i].test) =>
               trace[i].continues = PayloadHolds(trace[i].test)


(***************************************************************************)
(* C25: a call of a function declared at top level, whose closure is the   *)
(* global scope, leaves the global scope as it was: when the call returns, *)
(* the global names and the value of each are those of the moment of the   *)
(* call, even when the body assigns to a name that only the globals bind.  *)
(***************************************************************************)
\* the ends of the calls of functions declared at top level
TopLevelReturns ==
    {e \in 1 .. Len(trace) :
        trace[e].ev = "exit" /\ trace[CallOf(e)].func.closure = Globals}

\* C25: a call of a function declared at top level leaves the globals, their
\* names and the value of each, as they were when it began.
C25_CallLeavesGlobals ==
    \A e \in TopLevelReturns :
        /\ DOMAIN trace[e].globals = DOMAIN trace[CallOf(e)].closureNow
        /\ \A name \in DOMAIN trace[e].globals :
               trace[e].globals[name] = trace[CallOf(e)].closureNow[name]

\* every function called from the start of the call that ends at e until e, in
\* its arguments or in its body, was declared at top level or during that call
CallsItsOwn(e) ==
    \A c \in CallOf(e) .. e :
        trace[c].ev = "call" =>
            \/ trace[c].func.closure = Globals
            \/ \E d \in CallOf(e) .. c - 1 :
                   trace[d].ev = "call" /\ trace[d].scope = trace[c].func.closure

\* C25, amended: a call of a function declared at top level leaves the
\* globals, their names and the value of each, as they were when it began,
\* when every function called while it runs, in its arguments or in its body,
\* was declared at top level or during the call.
C25_CallLeavesGlobalsCallingItsOwn ==
    \A e \in TopLevelReturns :
        CallsItsOwn(e) =>
            /\ DOMAIN trace[e].globals = DOMAIN trace[CallOf(e)].closureNow
            /\ \A name \in DOMAIN trace[e].globals :
                   trace[e].globals[name] = trace[CallOf(e)].closureNow[name]

\* outer has assigned to g twice in a loop, declared t, fresh and helper, and
\* called inner, which assigned to g too; the global g is 1 as before
C25_Witness ==
    /\ input = ProgGlobalFrame
    /\ phase = "done"
    /\ output = << <<"15 1">> >>
    /\ \E e \in TopLevelReturns : \E a \in CallOf(e) + 1 .. e - 1 :
           /\ trace[CallOf(e)].frame = 0
           /\ CallsItsOwn(e)
           /\ \E c \in CallOf(e) + 1 .. e - 1 :
                  trace[c].ev = "call" /\ trace[c].func.closure = trace[CallOf(e)].scope
           /\ trace[a].ev = "assign" /\ trace[a].name = "g"
           /\ trace[a].frame = trace[e].frame
           /\ trace[a].target = trace[a].scope /\ trace[a].scope # Globals
           /\ trace[a].before[2]["g"] = Num(1)
           /\ trace[a].after[1]["g"] = Num(3)
           /\ trace[e].globals["g"] = Num(1)
           /\ {"t", "fresh", "helper"} \cap DOMAIN trace[e].globals = {}
           /\ \E i \in TopLevelReturns : CallOf(e) < CallOf(i) /\ i < e


(***************************************************************************)
(* C26: Lexer.tokenize terminates on every input: every iteration of its   *)
(* main loop advances the read position, by the characters that the loops  *)
(* of handleIndentation, skipComment, readIdentifier and readNumber have   *)
(* read, an unknown character is skipped alone, every iteration of the     *)
(* closing loop decreases currentIndent, and when tokenize returns         *)
(* currentIndent is at most zero.                                          *)
(***************************************************************************)
\* a character no case of the main loop knows
IsUnknown(c) ==
    /\ c # ""
    /\ ~IsWhitespace(c) /\ c # "#" /\ c \notin SymbolChars /\ c \notin {"[", "]"}
    /\ ~IsIdentStart(c) /\ ~IsDigit(c)

\* the step is an iteration of the main loop: it reads on, and not past the end
MainLoopAdvances ==
    /\ pos < Len(input)
    /\ pos' > pos /\ pos' <= Len(input)
    /\ IsUnknown(CharAt(input, pos)) =>
           pos' = pos + 1 /\ tokens' = tokens /\ currentIndent' = currentIndent
    /\ IsIdentStart(CharAt(input, pos)) \/ IsDigit(CharAt(input, pos)) =>
           /\ tokens' = Append(tokens, tokens'[Len(tokens')])
           /\ tokens'[Len(tokens')].value = SubSeq(input, pos + 1, pos')
           /\ currentIndent' = currentIndent

\* the step is an iteration of the closing loop: the indent width goes down
ClosingLoopDecreases ==
    /\ pos >= Len(input) /\ pos' = pos
    /\ currentIndent > 0 /\ currentIndent' < currentIndent
    /\ currentIndent' >= 0 - IndentStep

\* the step is the return of tokenize
TokenizeReturns == phase' = "lexed" /\ UNCHANGED lexVars /\ currentIndent <= 0

LexerProgress ==
    phase = "lex" => MainLoopAdvances \/ ClosingLoopDecreases \/ TokenizeReturns

C26_TokenizeTerminates ==
    /\ [][LexerProgress]_vars
    /\ [](phase # "lex" => currentIndent <= 0)
    /\ <>(phase # "lex")

\* tokenize has returned after skipping ; @ and $ and closing, from width 6,
\* two blocks with two DEDENT tokens
C26_Witness ==
    /\ input = ProgUnknownChars
    /\ phase = "lexed"
    /\ pos = Len(input)
    /\ currentIndent = 6 - 2 * IndentStep
    /\ CountTokens("INDENT") = 2 /\ CountTokens("DEDENT") = 2
    /\ tokens[Len(tokens)].type = "DEDENT"
    /\ \E i \in 1 .. Len(tokens) : tokens[i] = [type |-> "NUMBER", value |-> "2.5"]
    /\ \A i \in 1 .. Len(tokens) :
           "value" \in DOMAIN tokens[i] => tokens[i].value \notin {";", "@", "$", "c"}

=============================================================================
